---- MODULE Spec2Model ----
(***************************************************************************)
(* gh-tools: repository discovery (github.RepoFinder) and the gh-find      *)
(* tree walk, modelled as state machines.                                   *)
(*                                                                          *)
(* Strings are sequences of one-character strings, so that pattern          *)
(* matching, path splitting and line scanning are computed.  A Go slice is  *)
(* a record [isNil, elems]: a nil slice and an empty non-nil slice differ. *)
(* A Go error is a string, "" standing for a nil error.                     *)
(***************************************************************************)
EXTENDS Integers, Sequences, FiniteSets, TLC

\* ------------------------------------------------------------------ bounds
\* Longest repository list handed to apply in SpecApply.
MaxRepos == 2
\* Largest number of repositories the API puts on one page.
MaxPageLen == 2
\* Highest page number the API serves.
MaxPageNo == 3
\* Largest value of -max-results, -max-repo-results and -max-grep-results.
MaxBudget == 2
\* Largest number of repositories Find hands to the walk.
MaxWalkRepos == 2
\* Largest number of entries of one tree.
MaxEntries == 3

\* ----------------------------------------------------------------- strings
S(str) ==
  CASE str = "" -> <<>>
    [] str = "foo" -> <<"f", "o", "o">>
    [] str = "bar" -> <<"b", "a", "r">>
    [] str = "baz" -> <<"b", "a", "z">>
    [] str = "fob" -> <<"f", "o", "b">>
    [] str = "ba" -> <<"b", "a">>
    [] str = "f" -> <<"f">>
    [] str = "nope" -> <<"n", "o", "p", "e">>

\* A compiled pattern: a literal, anchored at the start of the text ("^lit")
\* or not.  NoRegexp is the nil *regexp.Regexp.
NoRegexp == [isNil |-> TRUE, anchored |-> FALSE, lit |-> <<>>]

Regexp(anchored, lit) == [isNil |-> FALSE, anchored |-> anchored, lit |-> lit]

\* regexp.MatchString for the patterns above.
MatchString(re, s) ==
  IF re.anchored
    THEN Len(re.lit) <= Len(s) /\ SubSeq(s, 1, Len(re.lit)) = re.lit
    ELSE \E i \in 1..(Len(s) + 1) :
           /\ i + Len(re.lit) - 1 <= Len(s)
           /\ SubSeq(s, i, i + Len(re.lit) - 1) = re.lit

\* ------------------------------------------------------------------ slices
NilSlice == [isNil |-> TRUE, elems |-> <<>>]

Slice(elems) == [isNil |-> FALSE, elems |-> elems]

\* A nil *github.Repository; its getters return the zero values.
NilRepo ==
  [name |-> <<>>, archived |-> FALSE, private |-> FALSE, fork |-> FALSE,
   isNil |-> TRUE]

Repo(name, archived, private, fork) ==
  [name |-> name, archived |-> archived, private |-> private, fork |-> fork,
   isNil |-> FALSE]

\* make([]*github.Repository, n): n nil pointers.
MakeSlice(n) == Slice([i \in 1..n |-> NilRepo])

\* append(s, t...): appending nothing returns s itself (nil stays nil).
AppendSlice(s, t) ==
  IF Len(t.elems) = 0 THEN s ELSE Slice(s.elems \o t.elems)

\* ------------------------------------------------------------- RepoFilter
RepoFilter(repo, re, archived, noPrivate, noPublic, noFork) ==
  [Repo |-> repo, RepoRegexp |-> re, Archived |-> archived,
   NoPrivate |-> noPrivate, NoPublic |-> noPublic, NoFork |-> noFork]

RepoRegexps == {NoRegexp, Regexp(FALSE, S("ba")), Regexp(TRUE, S("f"))}

\* -------------------------------------------------------------------- apply
\* The body of apply's range loop for one repository: TRUE when no
\* `continue` is taken, FALSE when one is.
applyKeepsArchivedMutant(repo, f) ==
  LET rejArchived == repo.archived /\ f.Archived
      rejVisible == IF repo.private THEN f.NoPrivate ELSE f.NoPublic
      rejFork == repo.fork /\ f.NoFork
      rejName == ~f.RepoRegexp.isNil /\ ~MatchString(f.RepoRegexp, repo.name)
  IN  ~rejArchived /\ ~rejVisible /\ ~rejFork /\ ~rejName

applyKeeps(repo, f) ==
  IF repo.archived /\ ~f.Archived THEN FALSE
  ELSE IF (IF repo.private THEN f.NoPrivate ELSE f.NoPublic) THEN FALSE
  ELSE IF repo.fork /\ f.NoFork THEN FALSE
  ELSE IF ~f.RepoRegexp.isNil /\ ~MatchString(f.RepoRegexp, repo.name) THEN FALSE
  ELSE TRUE

\* The loop of apply from index i on: filtered[n] = repo; n++ for each
\* repository kept.  Returns the slice storage and n.
RECURSIVE applyLoop(_, _, _, _, _)
applyLoop(repos, f, i, filtered, n) ==
  IF i > Len(repos) THEN [filtered |-> filtered, n |-> n]
  ELSE IF applyKeeps(repos[i], f)
    THEN applyLoop(repos, f, i + 1, [filtered EXCEPT ![n + 1] = repos[i]], n + 1)
    ELSE applyLoop(repos, f, i + 1, filtered, n)

\* The first version of apply: the kept repositories are appended behind the
\* len(repos) nil pointers make() put there, and the slice is never nil.
applyAppendMutant(repos, f) ==
  LET r == applyLoop(repos.elems, f, 1, MakeSlice(Len(repos.elems)).elems, 0)
  IN  Slice(MakeSlice(Len(repos.elems)).elems \o SubSeq(r.filtered, 1, r.n))

apply(repos, f) ==
  LET r == applyLoop(repos.elems, f, 1, MakeSlice(Len(repos.elems)).elems, 0)
  IN  IF r.n = 0 THEN NilSlice ELSE Slice(SubSeq(r.filtered, 1, r.n))


\* ------------------------------------------------------------------- state
VARIABLES
  filter,      \* the RepoFilter passed to Find / apply
  api,         \* the GitHub side: what the owner is, whether Repositories.Get works
  findPc,      \* where RepoFinder.Find is
  owner,       \* owner.GetType() once Users.Get returned
  opts,        \* the list options of userRepos / orgRepos (opts.Page)
  filtered,    \* the accumulator of userRepos / orgRepos
  findRet,     \* what Find returned: [repos, err]
  calls,       \* every API call issued so far, in order
  served,      \* every page the API returned so far: [repos, NextPage]
  applyRepos,  \* the repos argument of apply
  applyRet     \* [called, out]: the result of apply

VARIABLES
  config,      \* the config of gh-find, as readConfig returns it
  universe,    \* the GitHub side: the tree entries a repository may hold
  repos,       \* the repositories Find returned to finder.find
  ri,          \* how many repositories the nextRepo loop has started
  tree,        \* tree.Entries of the current repository
  ei,          \* the index of the next entry of tree
  matched,     \* matched
  repoMatched, \* repoMatched
  prevRepo,    \* prevRepo: a repository name, <<>> for nil
  stdout,      \* the lines written to f.stdout
  stderr,      \* the warnings written to f.stderr
  apiLog,      \* the tree, content and commit calls issued, in order
  walkPc,      \* where finder.find is
  walkErr,     \* the error finder.find returned
  step,        \* the last step taken: its stage, its entry, the counters it
               \* started from, how many calls and lines it issued, the tree
               \* response it got and the error a content or commit call gave
  repoLog      \* the repositories whose tree was asked for: whether it came,
               \* and the matches counted in it

VARIABLES
  call,        \* the function last called on its own, with its arguments
  ret          \* what it returned

findVars == <<filter, api, findPc, owner, opts, filtered, findRet, calls, served>>

walkVars ==
  <<config, universe, repos, ri, tree, ei, matched, repoMatched, prevRepo, stdout,
    stderr, apiLog, walkPc, walkErr, step, repoLog>>

applyVars == <<applyRepos, applyRet>>

callVars == <<call, ret>>

VARIABLES
  subscriber,  \* gh-watch: the subscriber, where its run is, and what it called and printed
  purger       \* gh-purge-artifacts: the purger, where purge is, and what it called and printed

toolVars == <<subscriber, purger>>

vars == <<findVars, applyVars, walkVars, callVars, toolVars>>

SeqsUpTo(set, n) == UNION {[1..k -> set] : k \in 0..n}

\* Sequences without repetition.
Distinct(seq) == \A i, j \in 1..Len(seq) : seq[i] = seq[j] => i = j

Range(seq) == {seq[i] : i \in 1..Len(seq)}

Call(apiName, page) == [api |-> apiName, page |-> page]

\* Find and apply not in use.
FindIdle ==
  /\ api = [owner |-> "User", repoGet |-> "ok"]
  /\ findPc = "idle"
  /\ owner = ""
  /\ opts = [Page |-> 0]
  /\ filtered = NilSlice
  /\ findRet = [repos |-> NilSlice, err |-> ""]
  /\ calls = <<>>
  /\ served = <<>>

ApplyIdle ==
  /\ applyRepos = NilSlice
  /\ applyRet = [called |-> FALSE, out |-> NilSlice]

\* finder.find not in use.
\* No tree response: the step asked for none.
NoResponse == [status |-> "", truncated |-> FALSE, entries |-> <<>>]

\* No function was called on its own.
CallIdle ==
  /\ call = [fn |-> ""]
  /\ ret = <<>>

\* gh-watch and gh-purge-artifacts not running.
ToolIdle ==
  /\ subscriber = [pc |-> "idle"]
  /\ purger = [pc |-> "idle"]

WalkIdle ==
  /\ config = [noMatches |-> FALSE]
  /\ universe = {}
  /\ repos = <<>>
  /\ ri = 0
  /\ tree = <<>>
  /\ ei = 0
  /\ matched = 0
  /\ repoMatched = 0
  /\ prevRepo = <<>>
  /\ stdout = <<>>
  /\ stderr = <<>>
  /\ apiLog = <<>>
  /\ walkPc = "idle"
  /\ walkErr = ""
  /\ step = [stage |-> "", entry |-> 0, matched |-> 0, repoMatched |-> 0, calls |-> 0, out |-> 0,
             resp |-> NoResponse, fail |-> ""]
  /\ repoLog = <<>>

\* ---------------------------------------------------------------- SpecApply
\* apply as a pure function: every repository list up to MaxRepos over every
\* combination of the three flags and two names, under every filter.
ApplyRepositories ==
  {Repo(n, a, p, f) : n \in {S("foo"), S("bar")}, a \in BOOLEAN, p \in BOOLEAN,
                      f \in BOOLEAN}

ListFilters ==
  {RepoFilter(<<>>, re, a, np, nu, nf) :
     re \in RepoRegexps, a \in BOOLEAN, np \in BOOLEAN, nu \in BOOLEAN,
     nf \in BOOLEAN}

InitApply ==
  /\ filter \in ListFilters
  /\ applyRepos \in {NilSlice} \cup {Slice(s) : s \in SeqsUpTo(ApplyRepositories, MaxRepos)}
  /\ applyRet = [called |-> FALSE, out |-> NilSlice]
  /\ FindIdle
  /\ WalkIdle
  /\ CallIdle
  /\ ToolIdle

ApplyCall ==
  /\ ~applyRet.called
  /\ applyRet' = [called |-> TRUE, out |-> apply(applyRepos, filter)]
  /\ UNCHANGED <<findVars, applyRepos, walkVars, callVars, toolVars>>

NextApply == ApplyCall

SpecApply == InitApply /\ [][NextApply]_vars

\* C2: apply keeps a repository if and only if it is (not archived or
\* filter.Archived) and (not private or not filter.NoPrivate) and (private or
\* not filter.NoPublic) and (not a fork or not filter.NoFork) and (no
\* RepoRegexp or the name matches it); the result holds exactly the kept
\* repositories in input order, and is the nil slice when there is none.
C2_Keep(repo) ==
  /\ ~repo.archived \/ filter.Archived
  /\ ~repo.private \/ ~filter.NoPrivate
  /\ repo.private \/ ~filter.NoPublic
  /\ ~repo.fork \/ ~filter.NoFork
  /\ filter.RepoRegexp.isNil \/ MatchString(filter.RepoRegexp, repo.name)

C2_ApplyKeepsExactly ==
  applyRet.called =>
    /\ applyRet.out.elems = SelectSeq(applyRepos.elems, C2_Keep)
    /\ applyRet.out.isNil <=> (applyRet.out.elems = <<>>)
    /\ filter.NoPrivate /\ filter.NoPublic => applyRet.out = NilSlice

C2_Witness ==
  /\ applyRet.called
  /\ Len(applyRepos.elems) = 2
  /\ Len(applyRet.out.elems) = 1
  /\ applyRet.out.elems[1] = applyRepos.elems[2]
  /\ applyRepos.elems[1].archived
  /\ ~filter.RepoRegexp.isNil

\* ----------------------------------------------------------------- SpecFind
\* The repositories of the owner on the GitHub side: names are unique.
Repositories ==
  { Repo(S("foo"), FALSE, FALSE, FALSE),
    Repo(S("bar"), FALSE, TRUE, FALSE),
    Repo(S("baz"), TRUE, FALSE, FALSE),
    Repo(S("fob"), FALSE, TRUE, TRUE) }

FindFilters ==
  {RepoFilter(repo, re, a, np, nu, nf) :
     repo \in {S(""), S("foo"), S("baz"), S("nope")},
     re \in RepoRegexps, a \in BOOLEAN, np \in BOOLEAN, nu \in BOOLEAN,
     nf \in BOOLEAN}

\* api.owner: the account type Users.Get reports, "missing" when there is no
\* such account, "error" when the call fails otherwise.
OwnerTypes == {"User", "Organization", "Bot"}

InitFind ==
  /\ filter \in FindFilters
  /\ api \in [owner : OwnerTypes \cup {"missing", "error"}, repoGet : {"ok", "error"}]
  /\ filter.Repo = <<>> => api.repoGet = "ok"   \* not called in list mode
  /\ findPc = "start"
  /\ owner = ""
  /\ opts = [Page |-> 0]
  /\ filtered = NilSlice
  /\ findRet = [repos |-> NilSlice, err |-> ""]
  /\ calls = <<>>
  /\ served = <<>>
  /\ ApplyIdle
  /\ WalkIdle
  /\ CallIdle
  /\ ToolIdle

Return(result, err) ==
  /\ findPc' = "done"
  /\ findRet' = [repos |-> result, err |-> err]

\* The test of Find's first statement (line 34).
NothingToDoNeverMutant(f) == FALSE

NothingToDo(f) == f.NoPrivate /\ f.NoPublic

\* Find, lines 34-36: both visibilities excluded, return nil, nil.
FindNothingToDo ==
  /\ findPc = "start"
  /\ NothingToDo(filter)
  /\ Return(NilSlice, "")
  /\ UNCHANGED <<filter, api, owner, opts, filtered, calls, served, applyVars, walkVars, callVars, toolVars>>

\* Where Find goes once the owner is known (lines 44 and 53-60).
FindDispatchDefaultUserMutant(t) ==
  IF filter.Repo # <<>> THEN "single"
  ELSE IF t = "Organization" THEN "orgRepos"
  ELSE "userRepos"

FindDispatch(t) ==
  IF filter.Repo # <<>> THEN "single"
  ELSE IF t = "User" THEN "userRepos"
  ELSE IF t = "Organization" THEN "orgRepos"
  ELSE "unknown"

\* Find, lines 38-62: Users.Get, then the choice of the mode.
FindUsersGet ==
  /\ findPc = "start"
  /\ ~NothingToDo(filter)
  /\ calls' = Append(calls, Call("Users.Get", 0))
  /\ IF api.owner \notin OwnerTypes
       THEN /\ Return(NilSlice, "can't read owner information")
            /\ UNCHANGED owner
       ELSE /\ owner' = api.owner
            /\ IF FindDispatch(api.owner) = "unknown"
                 THEN Return(NilSlice, "unknown owner type")
                 ELSE /\ findPc' = FindDispatch(api.owner)
                      /\ UNCHANGED findRet
  /\ UNCHANGED <<filter, api, opts, filtered, served, applyVars, walkVars, callVars, toolVars>>

\* Find, lines 45-49: the single repository, no criteria applied.
FindRepositoriesGet ==
  /\ findPc = "single"
  /\ calls' = Append(calls, Call("Repositories.Get", 0))
  /\ IF api.repoGet = "ok" /\ \E r \in Repositories : r.name = filter.Repo
       THEN Return(Slice(<<CHOOSE r \in Repositories : r.name = filter.Repo>>), "")
       ELSE Return(NilSlice, "can't read repository")
  /\ UNCHANGED <<filter, api, owner, opts, filtered, served, applyVars, walkVars, callVars, toolVars>>

\* The page number a request asks for: opts.Page = 0 is the first page.
PageNo(page) == IF page = 0 THEN 1 ELSE page

AlreadyServed == UNION {Range(served[i].repos) : i \in 1..Len(served)}

\* What a list call may answer: an error, or a page of repositories not
\* listed yet with the number of the next page, 0 after the last one.
ListResponses ==
  {[err |-> TRUE, repos |-> <<>>, NextPage |-> 0]} \cup
  {[err |-> FALSE, repos |-> s, NextPage |-> n] :
     s \in {q \in SeqsUpTo(Repositories \ AlreadyServed, MaxPageLen) : Distinct(q)},
     n \in {0} \cup ((PageNo(opts.Page) + 1)..MaxPageNo)}

\* opts.Page = resp.NextPage (lines 88 and 112).
NextOptsIncrementMutant(resp) == [Page |-> PageNo(opts.Page) + 1]

NextOpts(resp) == [Page |-> resp.NextPage]

\* filtered = append(filtered, apply(repos, filter)...) (lines 83 and 107).
AccumulateDropsEarlierMutant(acc, page) == apply(Slice(page), filter)

Accumulate(acc, page) == AppendSlice(acc, apply(Slice(page), filter))

\* The error return of the list loops (lines 79-81 and 103-105).
ListFailedPartialMutant(acc) == Return(acc, "can't read repositories")

ListFailed(acc) == Return(NilSlice, "can't read repositories")

\* One iteration of the loop of userRepos / orgRepos: the list call, apply,
\* append, and either the return or the next opts.Page.
ListIteration(apiName, resp) ==
  /\ calls' = Append(calls, Call(apiName, opts.Page))
  /\ IF resp.err
       THEN /\ ListFailed(filtered)
            /\ UNCHANGED <<opts, filtered, served>>
       ELSE /\ served' = Append(served, [repos |-> resp.repos, NextPage |-> resp.NextPage])
            /\ filtered' = Accumulate(filtered, resp.repos)
            /\ IF resp.NextPage = 0
                 THEN /\ Return(filtered', "")
                      /\ UNCHANGED opts
                 ELSE /\ opts' = NextOpts(resp)
                      /\ UNCHANGED <<findPc, findRet>>
  /\ UNCHANGED <<filter, api, owner, applyVars, walkVars, callVars, toolVars>>

userReposList ==
  /\ findPc = "userRepos"
  /\ \E resp \in ListResponses : ListIteration("Repositories.List", resp)

orgReposListByOrg ==
  /\ findPc = "orgRepos"
  /\ \E resp \in ListResponses : ListIteration("Repositories.ListByOrg", resp)

NextFind ==
  \/ FindNothingToDo
  \/ FindUsersGet
  \/ FindRepositoriesGet
  \/ userReposList
  \/ orgReposListByOrg

SpecFind == InitFind /\ [][NextFind]_vars

\* Find returns without an API call left to make.
FairSpecFind == SpecFind /\ WF_vars(NextFind)

FindTypeOK ==
  /\ findPc \in {"start", "single", "userRepos", "orgRepos", "done"}
  /\ opts.Page \in 0..MaxPageNo
  /\ Len(served) <= MaxPageNo

\* The list calls among the API calls, in order.
ListCalls == SelectSeq(calls, LAMBDA c : c.api \in {"Repositories.List", "Repositories.ListByOrg"})

RepositoryCalls == SelectSeq(calls, LAMBDA c : c.api # "Users.Get")

ListMode == filter.Repo = <<>> /\ ~(filter.NoPrivate /\ filter.NoPublic)

\* Every repository the API has listed so far, in page order.
RECURSIVE Flatten(_)
Flatten(pages) ==
  IF pages = <<>> THEN <<>> ELSE pages[1].repos \o Flatten(Tail(pages))

\* Some list call failed: one more list call than pages received.
PageFetchFailed == Len(ListCalls) > Len(served)

\* C1: in single-repo mode (filter.Repo set), whenever the owner lookup and
\* the fetch of the repository succeed, Find returns exactly that repository
\* and no error, whatever Archived, NoPrivate, NoPublic, NoFork and RepoRegexp
\* are, NoPrivate and NoPublic both set included.
C1_SingleRepoOverridesAllFilters ==
  ( /\ findPc = "done"
    /\ filter.Repo # <<>>
    /\ api.owner \in OwnerTypes
    /\ api.repoGet = "ok"
    /\ \E r \in Repositories : r.name = filter.Repo )
  => /\ findRet.err = ""
     /\ Len(findRet.repos.elems) = 1
     /\ findRet.repos.elems[1].name = filter.Repo

Survivors(listing) == SelectSeq(listing, C2_Keep)

\* C5: in list mode the result of Find is the concatenation, in page-fetch
\* order, of each page's repositories that pass the filter in their in-page
\* order: an order-preserving subsequence of the API listing, nothing added,
\* duplicated, reordered or left as an empty slot.
C5_ResultIsFilteredListingInOrder ==
  ListMode =>
    /\ filtered.elems = Survivors(Flatten(served))
    /\ \A i \in 1..Len(filtered.elems) : ~filtered.elems[i].isNil
    /\ (findPc = "done" /\ findRet.err = "" /\ owner \in {"User", "Organization"}) =>
         /\ findRet.repos.elems = Survivors(Flatten(served))
         /\ Distinct(findRet.repos.elems)
         /\ Range(findRet.repos.elems) \subseteq Range(Flatten(served))

C5_Witness ==
  /\ findPc = "done"
  /\ findRet.err = ""
  /\ Len(served) = 2
  /\ Len(served[1].repos) = 2
  /\ Len(served[2].repos) = 2
  /\ Len(findRet.repos.elems) = 2
  /\ findRet.repos.elems[1] = served[1].repos[2]
  /\ findRet.repos.elems[2] = served[2].repos[1]

\* C6: when a page fetch fails, on the first page or a later one, Find
\* returns an error and no repositories: what earlier pages accumulated is
\* not returned.
C6_FailedPageDiscardsPartialResults ==
  (findPc = "done" /\ PageFetchFailed) =>
    /\ findRet.err = "can't read repositories"
    /\ findRet.repos = NilSlice

C6_Witness ==
  /\ findPc = "done"
  /\ PageFetchFailed
  /\ Len(served) = 1
  /\ Len(filtered.elems) = 2

\* C7: in list mode Find requests the first page, then the page named by the
\* NextPage of the response before, stops exactly at a response with
\* NextPage = 0 having processed every fetched page once, returns the empty
\* result without error for an owner without repositories, and terminates.
C7_Requests ==
  /\ ListCalls # <<>> => ListCalls[1].page = 0
  /\ \A i \in 2..Len(ListCalls) : ListCalls[i].page = served[i - 1].NextPage
  /\ \A i \in 1..Len(ListCalls) :
       ListCalls[i].api = (IF owner = "User" THEN "Repositories.List" ELSE "Repositories.ListByOrg")
  /\ \A i \in 1..(Len(served) - 1) : served[i].NextPage # 0
  /\ (served # <<>> /\ served[Len(served)].NextPage = 0) =>
       /\ findPc = "done"
       /\ findRet.err = ""
       /\ Len(ListCalls) = Len(served)
       /\ findRet.repos.elems = Survivors(Flatten(served))
  /\ findPc \in {"userRepos", "orgRepos"} =>
       /\ Len(ListCalls) = Len(served)
       /\ served # <<>> => served[Len(served)].NextPage # 0
  /\ (findPc = "done" /\ ListCalls # <<>> /\ ~PageFetchFailed /\ Flatten(served) = <<>>) =>
       findRet = [repos |-> NilSlice, err |-> ""]

C7_PaginationFollowsNextPageAndTerminates ==
  [](C7_Requests) /\ <>(findPc = "done")

C7_Witness ==
  /\ findPc = "done"
  /\ findRet.err = ""
  /\ Len(ListCalls) = 2
  /\ ListCalls[1].page = 0
  /\ ListCalls[2].page = 3
  /\ Len(findRet.repos.elems) = 1

C7_WitnessNoRepositories ==
  /\ findPc = "done"
  /\ Len(ListCalls) = 1
  /\ served = <<[repos |-> <<>>, NextPage |-> 0]>>
  /\ findRet = [repos |-> NilSlice, err |-> ""]

\* ================================================================= gh-find
\* ------------------------------------------------------- helpers of gh-find
Min(a, b) == IF a < b THEN a ELSE b

\* levels: len(path) - len(strings.ReplaceAll(path, "/", "")) + 1.
levelsCountsSlashesMutant(path) == Len(path) - Len(SelectSeq(path, LAMBDA c : c # "/"))

levels(path) == Len(path) - Len(SelectSeq(path, LAMBDA c : c # "/")) + 1

\* strings.LastIndex(path, "/"), counted from 1; 0 when there is none.
LastSlash(path) ==
  IF \E i \in 1..Len(path) : path[i] = "/"
    THEN CHOOSE i \in 1..Len(path) :
           path[i] = "/" /\ \A j \in (i + 1)..Len(path) : path[j] # "/"
    ELSE 0

\* The file part of path.Split: what follows the final slash.
BasenameWholePathMutant(path) == path

Basename(path) == SubSeq(path, LastSlash(path) + 1, Len(path))

\* matchAny: some pattern of the list matches s.
matchAny(s, regexes) == \E i \in 1..Len(regexes) : MatchString(regexes[i], s)

\* sizePredicate.match: op 0 is ==, op 1 is >=, every other op is <=.
NoSize == [isNil |-> TRUE, op |-> 0, value |-> 0]

sizePredicate(op, value) == [isNil |-> FALSE, op |-> op, value |-> value]

sizeMatch(p, value) ==
  IF p.op = 0 THEN value = p.value
  ELSE IF p.op = 1 THEN value >= p.value
  ELSE value <= p.value

\* ---------------------------------------------------------------------- grep
NUL == "NUL"

LF == "\n"

CR == "\r"

\* The number of bytes grep peeks at to tell binary from text.
PeekLen == 256

\* bufio.ScanLines: the lines of data without their end-of-line marker (a
\* newline, with one carriage return before it dropped); a last line that
\* has no newline counts when it is not empty.
dropCR(line) ==
  IF Len(line) > 0 /\ line[Len(line)] = CR THEN SubSeq(line, 1, Len(line) - 1) ELSE line

RECURSIVE ScanLines(_)
ScanLines(data) ==
  IF data = <<>> THEN <<>>
  ELSE IF \E i \in 1..Len(data) : data[i] = LF
    THEN LET i == CHOOSE k \in 1..Len(data) :
                    data[k] = LF /\ \A j \in 1..(k - 1) : data[j] # LF
         IN  <<dropCR(SubSeq(data, 1, i - 1))>> \o ScanLines(SubSeq(data, i + 1, Len(data)))
    ELSE <<dropCR(data)>>

NoGrepResults == [isNil |-> TRUE, isBinary |-> FALSE, matches |-> <<>>]

grepResults(isBinary, matches) == [isNil |-> FALSE, isBinary |-> isBinary, matches |-> matches]

\* The scanner loop numbering the matches and not the lines.
RECURSIVE grepScanNumbersMatchesMutant(_, _, _, _, _, _)
grepScanNumbersMatchesMutant(lines, i, lineno, matches, pattern, limit) ==
  IF i > Len(lines) THEN matches
  ELSE IF limit > 0 /\ Len(matches) >= limit THEN matches
  ELSE IF MatchString(pattern, lines[i])
    THEN grepScanNumbersMatchesMutant(lines, i + 1, lineno + 1,
           Append(matches, [line |-> lines[i], lineno |-> lineno + 1]), pattern, limit)
    ELSE grepScanNumbersMatchesMutant(lines, i + 1, lineno, matches, pattern, limit)

\* The scanner loop of grep from line i on.
RECURSIVE grepScan(_, _, _, _, _, _)
grepScan(lines, i, lineno, matches, pattern, limit) ==
  IF i > Len(lines) THEN matches
  ELSE IF limit > 0 /\ Len(matches) >= limit THEN matches
  ELSE IF MatchString(pattern, lines[i])
    THEN grepScan(lines, i + 1, lineno + 1,
                  Append(matches, [line |-> lines[i], lineno |-> lineno + 1]), pattern, limit)
    ELSE grepScan(lines, i + 1, lineno + 1, matches, pattern, limit)

\* grep without the test for a zero byte.
grepSkipsBinaryTestMutant(contents, pattern, limit) ==
  IF pattern.isNil THEN grepResults(FALSE, <<>>)
  ELSE grepResults(FALSE, grepScan(ScanLines(contents), 1, 0, <<>>, pattern, limit))

grep(contents, pattern, limit) ==
  IF pattern.isNil THEN grepResults(FALSE, <<>>)
  ELSE IF \E i \in 1..Min(PeekLen, Len(contents)) : contents[i] = NUL
    THEN grepResults(TRUE, <<>>)
  ELSE grepResults(FALSE, grepScan(ScanLines(contents), 1, 0, <<>>, pattern, limit))

\* ---------------------------------------------------------------- readConfig
typeFile == "f"

typeDir == "d"

\* The checks and implications of readConfig on the parsed flags (lines
\* 208-311).  flags.size is the -size flag after size.Parse: isSet, the sign
\* character's op, the byte count, and whether it parsed.
ftypeAsGivenMutant(flags) == flags.ftype

\* Lines 254, 260 and 300: -grep, -no-grep and -size imply the file type.
ftypeImplied(flags) ==
  IF ~flags.grep.isNil \/ ~flags.noGrep.isNil \/ (flags.size.isSet /\ flags.size.valid)
    THEN typeFile ELSE flags.ftype

readConfig(flags) ==
  LET ftype == ftypeImplied(flags)
      cfg == [ftype |-> ftype,
              minDepth |-> flags.minDepth,
              maxDepth |-> flags.maxDepth,
              maxResults |-> IF flags.noMatches THEN 0 ELSE flags.maxResults,
              maxRepoResults |-> IF flags.noMatches THEN 1 ELSE flags.maxRepoResults,
              maxGrepResults |-> IF flags.noMatches THEN 1 ELSE flags.maxGrepResults,
              nameRegexp |-> flags.name,
              noNameRegexp |-> flags.noName,
              pathRegexp |-> flags.path,
              noPathRegexp |-> flags.noPath,
              grepRegexp |-> flags.grep,
              noGrepRegexp |-> flags.noGrep,
              size |-> IF flags.size.isSet
                         THEN sizePredicate(flags.size.op, flags.size.value) ELSE NoSize,
              noMatches |-> flags.noMatches,
              listDetails |-> flags.listDetails]
      err == IF flags.noPrivate /\ flags.noPublic
               THEN "no-private and no-public are mutually exclusive"
             ELSE IF flags.ftype \notin {"", typeFile, typeDir} THEN "invalid type"
             ELSE IF flags.maxDepth < 0 THEN "max-depth should be positive"
             ELSE IF flags.minDepth < 0 THEN "min-depth should be positive"
             ELSE IF flags.maxDepth > 0 /\ flags.minDepth > 0 /\ flags.maxDepth < flags.minDepth
               THEN "min-depth should be less than max-depth"
             ELSE IF flags.maxResults < 0 THEN "max-results should be positive"
             ELSE IF flags.maxRepoResults < 0 THEN "max-repo-results should be positive"
             ELSE IF flags.maxGrepResults < 0 THEN "max-grep-results should be positive"
             ELSE IF flags.size.isSet /\ ~flags.size.valid THEN "invalid size"
             ELSE ""
  IN  [config |-> cfg, err |-> err]

\* --------------------------------------------------- one tree entry of find
\* What the evaluation of one entry (lines 396-497) comes to: how the loops go
\* on (next), the counters, the lines printed, the API calls issued and the
\* stage that decided.
Outcome(next, stage, m, rm, out, apiCalls, err) ==
  [next |-> next, stage |-> stage, matched |-> m, repoMatched |-> rm,
   out |-> out, calls |-> apiCalls, err |-> err]

ApiCall(apiName, repo, path) == [api |-> apiName, repo |-> repo, path |-> path]

\* repo.GetFullName(): owner/name.
FullName(repo) == <<"o", "/">> \o repo

Line(kind, repo, path, lineno, text) ==
  [kind |-> kind, repo |-> FullName(repo), path |-> path, lineno |-> lineno, line |-> text]

\* grepContents (lines 543-556); d is what DownloadContents answers.
grepContents(cfg, repo, e, limit, d) ==
  IF cfg.grepRegexp.isNil
    THEN [results |-> NoGrepResults, err |-> "", calls |-> <<>>]
  ELSE IF d = "error"
    THEN [results |-> NoGrepResults, err |-> "download failed",
          calls |-> <<ApiCall("Repositories.DownloadContents", repo, e.path)>>]
  ELSE [results |-> grep(e.content, cfg.grepRegexp, limit), err |-> "",
        calls |-> <<ApiCall("Repositories.DownloadContents", repo, e.path)>>]

\* Lines 479-496: the entry is a match by itself; c is what ListCommits
\* answers when the details are asked for.
EvalPlain(cfg, repo, e, m, rm, apiCalls, c) ==
  IF cfg.noMatches
    THEN Outcome("nextEntry", "plain", m + 1, rm + 1, <<>>, apiCalls, "")
  ELSE IF ~cfg.listDetails
    THEN Outcome("nextEntry", "plain", m + 1, rm + 1,
                 <<Line("plain", repo, e.path, 0, <<>>)>>, apiCalls, "")
  ELSE LET withCommit == Append(apiCalls, ApiCall("Repositories.ListCommits", repo, e.path))
       IN  IF c = "error"
             THEN Outcome("error", "detail", m + 1, rm + 1, <<>>, withCommit, "commit lookup failed")
           ELSE IF c = "empty"   \* getLastCommit returns nil, nil: commit.Author
             THEN Outcome("panic", "detail", m + 1, rm + 1, <<>>, withCommit, "")
           ELSE Outcome("nextEntry", "detail", m + 1, rm + 1,
                        <<Line("detail", repo, e.path, 0, <<>>)>>, withCommit, "")

\* The lines printed for the matches of one file (lines 471-475).
GrepLinesLastFirstMutant(repo, e, matches) ==
  [i \in 1..Len(matches) |->
     Line("grep", repo, e.path, matches[Len(matches) + 1 - i].lineno,
          matches[Len(matches) + 1 - i].line)]

GrepLines(repo, e, matches) ==
  [i \in 1..Len(matches) |-> Line("grep", repo, e.path, matches[i].lineno, matches[i].line)]

\* The count of matched files after a grep (lines 466-469).
CountPerLineMutant(n, matches) == n + Len(matches)

CountFile(n, matches) == IF Len(matches) > 0 THEN n + 1 ELSE n

\* Lines 460-477: the grep stage, then the plain match.
EvalGrep(cfg, repo, e, m, rm, apiCalls, d2, c) ==
  IF ~cfg.grepRegexp.isNil /\ e.type = "blob"
    THEN LET g == grepContents(cfg, repo, e, cfg.maxGrepResults, d2)
         IN  IF g.err # ""
               THEN Outcome("error", "grep", m, rm, <<>>, apiCalls \o g.calls, g.err)
             ELSE Outcome("nextEntry", "grep",
                          CountFile(m, g.results.matches),
                          CountFile(rm, g.results.matches),
                          IF cfg.noMatches THEN <<>> ELSE GrepLines(repo, e, g.results.matches),
                          apiCalls \o g.calls, "")
    ELSE EvalPlain(cfg, repo, e, m, rm, apiCalls, c)

\* Lines 449-458: the no-grep stage.  grepContents answers nil, nil when no
\* grep pattern is configured, and results.matches then dereferences nil.
EvalNoGrep(cfg, repo, e, m, rm, d1, d2, c) ==
  IF ~cfg.noGrepRegexp.isNil /\ e.type = "blob"
    THEN LET g == grepContents(cfg, repo, e, 1, d1)
         IN  IF g.err # "" THEN Outcome("error", "noGrep", m, rm, <<>>, g.calls, g.err)
             ELSE IF g.results.isNil THEN Outcome("panic", "noGrep", m, rm, <<>>, g.calls, "")
             ELSE IF Len(g.results.matches) > 0
               THEN Outcome("nextEntry", "noGrep", m, rm, <<>>, g.calls, "")
             ELSE EvalGrep(cfg, repo, e, m, rm, g.calls, d2, c)
    ELSE EvalGrep(cfg, repo, e, m, rm, <<>>, d2, c)

\* Lines 406-448: depth, type, size, path and name.
Rejected(cfg, e) ==
  IF cfg.minDepth > 0 /\ levels(e.path) < cfg.minDepth THEN "depth"
  ELSE IF cfg.maxDepth > 0 /\ levels(e.path) > cfg.maxDepth THEN "depth"
  ELSE IF cfg.ftype = typeFile /\ e.type # "blob" THEN "type"
  ELSE IF cfg.ftype = typeDir /\ e.type # "tree" THEN "type"
  ELSE IF ~cfg.size.isNil /\ ~sizeMatch(cfg.size, e.size) THEN "size"
  ELSE IF Len(cfg.noPathRegexp) > 0 /\ matchAny(e.path, cfg.noPathRegexp) THEN "noPath"
  ELSE IF Len(cfg.pathRegexp) > 0 /\ ~matchAny(e.path, cfg.pathRegexp) THEN "path"
  ELSE IF Len(cfg.noNameRegexp) > 0 /\ matchAny(Basename(e.path), cfg.noNameRegexp) THEN "noName"
  ELSE IF Len(cfg.nameRegexp) > 0 /\ ~matchAny(Basename(e.path), cfg.nameRegexp) THEN "name"
  ELSE ""

\* The two budget tests (lines 373, 398 and 402).
GlobalBudgetOffByOneMutant(cfg, m) == cfg.maxResults > 0 /\ m > cfg.maxResults

GlobalBudgetExhausted(cfg, m) == cfg.maxResults > 0 /\ m >= cfg.maxResults

RepoBudgetOffByOneMutant(cfg, rm) == cfg.maxRepoResults > 0 /\ rm > cfg.maxRepoResults

RepoBudgetExhausted(cfg, rm) == cfg.maxRepoResults > 0 /\ rm >= cfg.maxRepoResults

EvalEntryWithoutTheChecksMutant(cfg, repo, e, m, rm, d1, d2, c) ==
  EvalNoGrep(cfg, repo, e, m, rm, d1, d2, c)

\* The body of the nextEntry loop for entry e (lines 396-497).
EvalEntry(cfg, repo, e, m, rm, d1, d2, c) ==
  IF GlobalBudgetExhausted(cfg, m) THEN Outcome("return", "global", m, rm, <<>>, <<>>, "")
  ELSE IF RepoBudgetExhausted(cfg, rm) THEN Outcome("nextRepo", "repo", m, rm, <<>>, <<>>, "")
  ELSE IF Rejected(cfg, e) # "" THEN Outcome("nextEntry", Rejected(cfg, e), m, rm, <<>>, <<>>, "")
  ELSE EvalNoGrep(cfg, repo, e, m, rm, d1, d2, c)

\* ------------------------------------------------------------- finder.find
Entry(path, type, size, content) ==
  [path |-> path, type |-> type, size |-> size, content |-> content]

\* The names of the repositories Find may return, in its order.
WalkRepos == <<S("foo"), S("bar"), S("baz"), S("fob")>>

\* What Git.GetTree may answer: a failure with its HTTP status ("none" when
\* the request got no response at all), or a tree of distinct paths,
\* truncated or not.
TreeResponses ==
  {[status |-> s, truncated |-> FALSE, entries |-> <<>>] : s \in {"404", "409", "500", "none"}} \cup
  {[status |-> "200", truncated |-> tr, entries |-> es] :
     tr \in BOOLEAN,
     es \in {q \in SeqsUpTo(universe, MaxEntries) :
               Distinct([i \in 1..Len(q) |-> q[i].path])}}

\* The record of a step: taken from the counters matched and repoMatched.
Step(stage, entry, nCalls, nOut) ==
  [stage |-> stage, entry |-> entry, matched |-> matched, repoMatched |-> repoMatched,
   calls |-> nCalls, out |-> nOut, resp |-> NoResponse, fail |-> ""]

\* The entries of a tree response (tree.Entries), truncated or not.
TreeEntriesDropsTruncatedMutant(resp) == IF resp.truncated THEN <<>> ELSE resp.entries

TreeEntries(resp) == resp.entries

\* The entry of repoLog for a repository whose tree was asked for.
RepoLogEntry(repo, fetched) == [repo |-> repo, fetched |-> fetched, matches |-> 0]

\* repoLog after n more matches in the current repository.
CountInRepoLog(n) ==
  IF n = 0 \/ repoLog = <<>> THEN repoLog
  ELSE [repoLog EXCEPT ![Len(repoLog)].matches = @ + n]

WalkReturn(err) ==
  /\ walkPc' = "done"
  /\ walkErr' = err

\* Lines 346-357: Find; its error is returned as it is.
findRepos ==
  /\ walkPc = "find"
  /\ \/ /\ WalkReturn("can't read repositories")
        /\ UNCHANGED repos
     \/ /\ \E k \in 0..MaxWalkRepos : repos' = SubSeq(WalkRepos, 1, k)
        /\ walkPc' = "repos"
        /\ UNCHANGED walkErr
  /\ step' = Step("find", 0, 0, 0)
  /\ UNCHANGED <<config, universe, ri, tree, ei, matched, repoMatched, prevRepo,
                 stdout, stderr, apiLog, repoLog, findVars, applyVars, callVars, toolVars>>

\* Lines 366-368 and 499-501: the repository before had no match.
NoMatchLineWhateverTheCountMutant ==
  IF prevRepo # <<>> /\ config.noMatches
    THEN <<Line("repo", prevRepo, <<>>, 0, <<>>)>>
    ELSE <<>>

NoMatchLine ==
  IF prevRepo # <<>> /\ config.noMatches /\ repoMatched = 0
    THEN <<Line("repo", prevRepo, <<>>, 0, <<>>)>>
    ELSE <<>>

\* Lines 384-388: the tree fetch failures that skip the repository.
SkipsRepositoryOnlyNotFoundMutant(status) == status = "404"

SkipsRepository(status) == status \in {"404", "409"}

\* Lines 365-393: the head of the nextRepo loop up to the tree.
nextRepo ==
  /\ walkPc = "repos"
  /\ ri < Len(repos)
  /\ LET repo == repos[ri + 1] IN
       /\ stdout' = stdout \o NoMatchLine
       /\ prevRepo' = repo
       /\ repoMatched' = 0
       /\ ri' = ri + 1
       /\ IF GlobalBudgetExhausted(config, matched)
            THEN /\ WalkReturn("")
                 /\ step' = Step("head", 0, 0, Len(NoMatchLine))
                 /\ UNCHANGED <<tree, ei, stderr, apiLog, repoLog>>
            ELSE \E resp \in TreeResponses :
                   /\ apiLog' = Append(apiLog, ApiCall("Git.GetTree", repo, <<>>))
                   /\ step' = [Step("head", 0, 1, Len(NoMatchLine)) EXCEPT !.resp = resp]
                   /\ repoLog' = Append(repoLog, RepoLogEntry(repo, resp.status = "200"))
                   /\ IF resp.status = "none"   \* resp is nil: resp.StatusCode
                        THEN /\ walkPc' = "panic"
                             /\ UNCHANGED <<tree, ei, stderr, walkErr>>
                      ELSE IF SkipsRepository(resp.status)
                        THEN UNCHANGED <<tree, ei, stderr, walkPc, walkErr>>
                      ELSE IF resp.status # "200"
                        THEN /\ WalkReturn("tree fetch failed")
                             /\ UNCHANGED <<tree, ei, stderr>>
                      ELSE /\ tree' = TreeEntries(resp)
                           /\ ei' = 1
                           /\ stderr' = IF resp.truncated THEN Append(stderr, FullName(repo))
                                        ELSE stderr
                           /\ walkPc' = IF TreeEntries(resp) = <<>> THEN "repos" ELSE "entries"
                           /\ UNCHANGED walkErr
  /\ UNCHANGED <<config, universe, repos, matched, findVars, applyVars, callVars, toolVars>>

\* What the API may answer while one entry is evaluated.  The first failure
\* ends the walk, so one failing call is chosen at most: the download of the
\* no-grep stage, the download of the grep stage, or the commit lookup, which
\* may also succeed with an empty list.
ApiAnswers ==
  {[d1 |-> "ok", d2 |-> "ok", c |-> "ok"]} \cup
  (IF config.grepRegexp.isNil THEN {}
   ELSE {[d1 |-> "error", d2 |-> "ok", c |-> "ok"], [d1 |-> "ok", d2 |-> "error", c |-> "ok"]}) \cup
  (IF config.listDetails
     THEN {[d1 |-> "ok", d2 |-> "ok", c |-> "error"], [d1 |-> "ok", d2 |-> "ok", c |-> "empty"]}
     ELSE {})

\* Lines 396-497: one entry of the tree.
nextEntry ==
  /\ walkPc = "entries"
  /\ \E a \in ApiAnswers :
       \E r \in {EvalEntry(config, repos[ri], tree[ei], matched, repoMatched, a.d1, a.d2, a.c)} :
         /\ matched' = r.matched
         /\ repoMatched' = r.repoMatched
         /\ stdout' = stdout \o r.out
         /\ apiLog' = apiLog \o r.calls
         /\ step' = [Step(r.stage, ei, Len(r.calls), Len(r.out)) EXCEPT
                       !.fail = IF r.next = "error" THEN r.err ELSE ""]
         /\ repoLog' = CountInRepoLog(r.matched - matched)
         /\ CASE r.next = "return" -> WalkReturn("") /\ UNCHANGED ei
              [] r.next = "error" -> WalkReturn(r.err) /\ UNCHANGED ei
              [] r.next = "panic" -> walkPc' = "panic" /\ UNCHANGED <<ei, walkErr>>
              [] r.next = "nextRepo" -> walkPc' = "repos" /\ UNCHANGED <<ei, walkErr>>
              [] r.next = "nextEntry" ->
                   /\ ei' = ei + 1
                   /\ walkPc' = IF ei + 1 > Len(tree) THEN "repos" ELSE "entries"
                   /\ UNCHANGED walkErr
  /\ UNCHANGED <<config, universe, repos, ri, tree, prevRepo, stderr, findVars, applyVars, callVars, toolVars>>

\* Lines 499-503: after the last repository.
findReturn ==
  /\ walkPc = "repos"
  /\ ri = Len(repos)
  /\ stdout' = stdout \o NoMatchLine
  /\ WalkReturn("")
  /\ step' = Step("end", 0, 0, Len(NoMatchLine))
  /\ UNCHANGED <<config, universe, repos, ri, tree, ei, matched, repoMatched, prevRepo,
                 stderr, apiLog, repoLog, findVars, applyVars, callVars, toolVars>>

NextWalk == findRepos \/ nextRepo \/ nextEntry \/ findReturn

\* The walk under the budgets: every combination of the three limits up to
\* MaxBudget with and without -grep, -no-grep, -no-matches, -list-details and
\* -type, over trees of a file with three matching lines, a file with none, a
\* binary file and a directory.
BudgetFlags ==
  [ftype : {"", typeFile, typeDir},
   grep : {NoRegexp, Regexp(FALSE, <<"x">>)},
   noGrep : {NoRegexp, Regexp(FALSE, <<"y">>)},
   minDepth : {0}, maxDepth : {0},
   maxResults : 0..MaxBudget, maxRepoResults : 0..MaxBudget, maxGrepResults : 0..MaxBudget,
   name : {<<>>}, noName : {<<>>}, path : {<<>>}, noPath : {<<>>},
   size : {[isSet |-> FALSE, op |-> 0, value |-> 0, valid |-> TRUE]},
   noMatches : BOOLEAN, listDetails : BOOLEAN,
   noPrivate : {FALSE}, noPublic : {FALSE}]

BudgetEntries ==
  { Entry(<<"a">>, "blob", 7, <<"x", LF, "y", LF, "x", LF, "x">>),
    Entry(<<"z">>, "blob", 2, <<"y", LF>>),
    Entry(<<"c">>, "blob", 2, <<NUL, "x">>),
    Entry(<<"d">>, "tree", 0, <<>>) }

WalkStart ==
  /\ repos = <<>>
  /\ ri = 0
  /\ tree = <<>>
  /\ ei = 0
  /\ matched = 0
  /\ repoMatched = 0
  /\ prevRepo = <<>>
  /\ stdout = <<>>
  /\ stderr = <<>>
  /\ apiLog = <<>>
  /\ walkPc = "find"
  /\ walkErr = ""
  /\ step = [stage |-> "", entry |-> 0, matched |-> 0, repoMatched |-> 0, calls |-> 0, out |-> 0,
             resp |-> NoResponse, fail |-> ""]
  /\ repoLog = <<>>

InitWalk ==
  /\ config \in {readConfig(f).config : f \in {g \in BudgetFlags : readConfig(g).err = ""}}
  /\ universe = BudgetEntries
  /\ WalkStart
  /\ filter = RepoFilter(<<>>, NoRegexp, FALSE, FALSE, FALSE, FALSE)
  /\ FindIdle
  /\ ApplyIdle
  /\ CallIdle
  /\ ToolIdle

SpecWalk == InitWalk /\ [][NextWalk]_vars

WalkTypeOK ==
  /\ walkPc \in {"find", "repos", "entries", "done", "panic"}
  /\ ri \in 0..Len(repos)
  /\ walkPc = "entries" => ei \in 1..Len(tree)
  /\ matched >= repoMatched

WalkEnded == walkPc \in {"done", "panic"}

\* C8 as stated: with -max-results N > 0 (so not in no-matches mode) the
\* count of matched entries never exceeds N, and once it is N the walk ends
\* successfully: no step evaluates a further entry, prints a line or issues a
\* tree, content or commit call, and the walk returns without an error.
C8_GlobalBudgetEndsTheWalkSuccessfully ==
  (config.maxResults > 0 /\ walkPc # "find") =>
    /\ ~config.noMatches
    /\ matched <= config.maxResults
    /\ step.matched >= config.maxResults =>
         /\ step.stage \in {"global", "head", "end"}
         /\ step.calls = 0 /\ step.out = 0
         /\ matched = step.matched
         /\ walkPc = "done" /\ walkErr = ""
    /\ (WalkEnded /\ matched = config.maxResults) => (walkPc = "done" /\ walkErr = "")

\* The step that made the count reach its present value asked for the commit
\* of its entry (list-details) and the lookup failed or found no commit.
CommitLookupEndedTheWalk ==
  /\ config.listDetails
  /\ step.stage = "detail"
  /\ step.calls = 1 /\ step.out = 0
  /\ apiLog[Len(apiLog)].api = "Repositories.ListCommits"
  /\ matched = step.matched + 1
  /\ \/ walkPc = "done" /\ walkErr = "commit lookup failed"
     \/ walkPc = "panic"

\* C8 amended: the same, except that the walk ends with an error (or crashes)
\* instead of successfully when, in list-details mode, the commit lookup for
\* the very entry that made the count N fails (or returns no commit).
C8_GlobalBudgetEndsTheWalk ==
  (config.maxResults > 0 /\ walkPc # "find") =>
    /\ ~config.noMatches
    /\ matched <= config.maxResults
    /\ step.matched >= config.maxResults =>
         /\ step.stage \in {"global", "head", "end"}
         /\ step.calls = 0 /\ step.out = 0
         /\ matched = step.matched
         /\ walkPc = "done" /\ walkErr = ""
    /\ (WalkEnded /\ matched = config.maxResults) =>
         \/ walkPc = "done" /\ walkErr = ""
         \/ CommitLookupEndedTheWalk

\* Two entries matched in the first repository exhaust -max-results 2 and the
\* third entry ends the walk.
C8_Witness ==
  /\ config.maxResults = 2
  /\ config.maxRepoResults = 0
  /\ step.stage = "global"
  /\ step.entry = 3
  /\ step.matched = 2
  /\ Len(stdout) = 2
  /\ ri = 1 /\ Len(repos) = 2
  /\ walkPc = "done" /\ walkErr = ""

\* The step evaluated an entry: it is neither Find, the head of a repository
\* nor the end of the walk.
EntryStep == step.stage \notin {"", "find", "head", "end"}

GlobalBudgetReached == config.maxResults > 0 /\ step.matched >= config.maxResults

C9_WitnessEndsRepository ==
  /\ config.maxRepoResults = 1
  /\ config.maxResults = 0
  /\ step.stage = "repo"
  /\ step.entry = 2 /\ Len(tree) = 3
  /\ step.repoMatched = 1
  /\ ri = 1 /\ Len(repos) = 2
  /\ walkPc = "repos"

\* The entry the last step evaluated, its lines, and which of them match the
\* grep pattern.
StepEntry == tree[step.entry]

StepLines == ScanLines(StepEntry.content)

MatchingLines == {i \in 1..Len(StepLines) : MatchString(config.grepRegexp, StepLines[i])}

IsBinary == \E i \in 1..Min(PeekLen, Len(StepEntry.content)) : StepEntry.content[i] = NUL

\* The lines the last step printed.
StepOutput == SubSeq(stdout, Len(stdout) - step.out + 1, Len(stdout))

\* The last step grepped a file that reached the grep stage and was read.
GrepStep == step.stage = "grep" /\ walkErr = "" /\ walkPc # "panic"

\* n result lines of the entry, one for each of its first n matching lines.
EmitsMatchingLines(n) ==
  /\ step.out = n
  /\ \A k \in 1..n :
       /\ StepOutput[k].kind = "grep"
       /\ StepOutput[k].repo = FullName(repos[ri])
       /\ StepOutput[k].path = StepEntry.path
       /\ StepOutput[k].lineno \in MatchingLines
       /\ StepOutput[k].line = StepLines[StepOutput[k].lineno]
       /\ Cardinality({i \in MatchingLines : i <= StepOutput[k].lineno}) = k

\* The number of lines -max-grep-results lets through.
GrepLimited(n) ==
  IF config.maxGrepResults > 0 THEN Min(n, config.maxGrepResults) ELSE n

\* C10 as stated: a grepped file with at least one matching line adds one to
\* the global and to the per-repository count whatever the number of its
\* matching lines, and one line is printed for each matching line, up to
\* -max-grep-results of them; a file with no matching line or a binary one
\* adds nothing and prints nothing.
C10_GrepCountsFilesAndEmitsLines ==
  GrepStep =>
    IF IsBinary \/ MatchingLines = {}
      THEN matched = step.matched /\ repoMatched = step.repoMatched /\ step.out = 0
      ELSE /\ matched = step.matched + 1
           /\ repoMatched = step.repoMatched + 1
           /\ EmitsMatchingLines(GrepLimited(Cardinality(MatchingLines)))

\* C10 amended: the same outside no-matches mode; in no-matches mode a file
\* with a matching line adds one to both counts and no line is printed.
C10_GrepCountsFilesAndEmitsLinesUnlessNoMatches ==
  GrepStep =>
    IF IsBinary \/ MatchingLines = {}
      THEN matched = step.matched /\ repoMatched = step.repoMatched /\ step.out = 0
      ELSE /\ matched = step.matched + 1
           /\ repoMatched = step.repoMatched + 1
           /\ IF config.noMatches
                THEN step.out = 0
                ELSE EmitsMatchingLines(GrepLimited(Cardinality(MatchingLines)))

\* The file of three matching lines is grepped with -max-grep-results 2: one
\* more matched file, two lines printed.
C10_Witness ==
  /\ GrepStep
  /\ config.maxGrepResults = 2
  /\ ~config.noMatches
  /\ Cardinality(MatchingLines) = 3
  /\ step.out = 2
  /\ matched = step.matched + 1

\* A binary file holding the pattern is grepped: nothing counted or printed.
C10_WitnessBinary ==
  /\ GrepStep
  /\ IsBinary
  /\ MatchingLines # {}
  /\ step.out = 0
  /\ matched = step.matched

\* No limit on the lines: all three are printed for one matched file.
C10_WitnessUnlimited ==
  /\ GrepStep
  /\ config.maxGrepResults = 0
  /\ step.out = 3
  /\ repoMatched = step.repoMatched + 1

\* The walk returned without an error.
WalkSucceeded == walkPc = "done" /\ walkErr = ""

\* The repositories in which no match was counted, in the order of the walk.
ZeroMatchRepos == SelectSeq(repoLog, LAMBDA e : e.matches = 0)

\* C11: in no-matches mode a walk that returns without error has asked for
\* the tree of every repository of the list, and its output is the full name
\* of each repository without a match, once and in the order of the list: no
\* line for a repository with a match, no match line, the last repository
\* included.
C11_NoMatchesPrintsExactlyTheRepositoriesWithoutMatch ==
  (config.noMatches /\ WalkSucceeded) =>
    /\ Len(repoLog) = Len(repos)
    /\ \A i \in 1..Len(repos) : repoLog[i].repo = repos[i]
    /\ stdout = [i \in 1..Len(ZeroMatchRepos) |->
                   Line("repo", ZeroMatchRepos[i].repo, <<>>, 0, <<>>)]

\* Two repositories, the first with a match and the last with a tree and no
\* match: the last one alone is printed.
C11_Witness ==
  /\ config.noMatches /\ WalkSucceeded
  /\ Len(repos) = 2
  /\ repoLog[1].matches = 1
  /\ repoLog[2].matches = 0 /\ repoLog[2].fetched /\ tree # <<>>
  /\ stdout = <<Line("repo", repos[2], <<>>, 0, <<>>)>>

\* The first repository has no match and the last one has: the first alone is
\* printed.
C11_WitnessLastMatches ==
  /\ config.noMatches /\ WalkSucceeded
  /\ Len(repos) = 2
  /\ repoLog[1].matches = 0 /\ repoLog[1].fetched
  /\ repoLog[2].matches = 1
  /\ stdout = <<Line("repo", repos[1], <<>>, 0, <<>>)>>

\* The last step asked for a tree and the fetch failed with 404 or 409.
TreeFetchSkipped == step.stage = "head" /\ step.resp.status \in {"404", "409"}

\* The match lines of stdout (not the no-matches lines) of a repository.
MatchLinesOf(repo) ==
  SelectSeq(stdout, LAMBDA l : l.kind # "repo" /\ l.repo = FullName(repo))

C12_SkippedIsNoError ==
  /\ TreeFetchSkipped =>
       /\ walkPc = "repos" /\ walkErr = ""
       /\ repos[ri] = repoLog[Len(repoLog)].repo
       /\ matched = step.matched
  /\ \A i \in 1..Len(repoLog) :
       ~repoLog[i].fetched => (repoLog[i].matches = 0 /\ MatchLinesOf(repoLog[i].repo) = <<>>)

C12_SkippedGoesOn ==
  (TreeFetchSkipped /\ walkPc = "repos") =>
    IF ri < Len(repos)
      THEN step'.stage = "head" /\ ri' = ri + 1 /\ prevRepo' = repos[ri + 1]
      ELSE step'.stage = "end" /\ walkPc' = "done" /\ walkErr' = ""

\* C12: a tree fetch that fails with 404 or 409 skips the repository: the
\* walk returns no error for it, no match is counted and no match line is
\* printed for it, and the next step is the head of the next repository of
\* the list (or the successful end of the walk after the last one).
C12_NotFoundAndConflictSkipTheRepository ==
  [](C12_SkippedIsNoError) /\ [][C12_SkippedGoesOn]_vars

\* The first repository is empty (409), the second one is walked and has a
\* match line.
C12_Witness ==
  /\ Len(repoLog) = 2
  /\ ~repoLog[1].fetched
  /\ apiLog[1] = ApiCall("Git.GetTree", repos[1], <<>>)
  /\ apiLog[2] = ApiCall("Git.GetTree", repos[2], <<>>)
  /\ repoLog[2].matches = 1
  /\ MatchLinesOf(repos[2]) # <<>>
  /\ WalkSucceeded

C12_WitnessConflict ==
  /\ TreeFetchSkipped
  /\ step.resp.status = "409"
  /\ ri = 1 /\ Len(repos) = 2
  /\ walkPc = "repos"

\* The last step asked for a tree and the fetch failed otherwise than with
\* 404 or 409; "none" is the failure that comes with no HTTP response.
TreeFetchFailed == step.stage = "head" /\ step.resp.status \in {"500", "none"}

\* The last step got an error from a content download or a commit lookup.
EntryCallFailed == step.fail # ""

\* C13: every tree fetch failure other than 404/409, the one without an
\* HTTP response included, every content download failure and every commit
\* lookup failure makes the walk return that error: the walk is over with
\* the error, and the failing step wrote nothing after the failure.
C13_EveryOtherFailureReturnsTheError ==
  /\ TreeFetchFailed => (walkPc = "done" /\ walkErr = "tree fetch failed")
  /\ EntryCallFailed => (walkPc = "done" /\ walkErr = step.fail /\ step.out = 0)

\* The last step asked for a tree and got one.
TreeFetched == step.stage = "head" /\ step.resp.status = "200"

\* The evaluation starts on the entries of the response, truncated or not.
C14_TruncatedTreeIsWalked ==
  TreeFetched =>
    /\ tree = step.resp.entries
    /\ ei = 1
    /\ walkErr = ""
    /\ walkPc = IF step.resp.entries = <<>> THEN "repos" ELSE "entries"
    /\ matched = step.matched /\ repoMatched = 0

\* The warning goes to stderr, names the repository, and is written for a
\* truncated tree only; the step writes nothing else than the no-matches
\* line of the repository before.
C14_TruncatedWarns ==
  /\ stderr' = IF step'.stage = "head" /\ step'.resp.status = "200" /\ step'.resp.truncated
                 THEN Append(stderr, FullName(repos'[ri']))
                 ELSE stderr
  /\ step'.stage = "head" =>
       \/ stdout' = stdout
       \/ /\ config.noMatches /\ prevRepo # <<>>
          /\ stdout' = Append(stdout, Line("repo", prevRepo, <<>>, 0, <<>>))

\* C14: a truncated tree is no error: a warning naming the repository is
\* written to stderr and not to stdout, and the entries returned are walked
\* as those of a tree that is not truncated.
C14_TruncatedTreeWarnsAndIsWalked ==
  [](C14_TruncatedTreeIsWalked) /\ [][C14_TruncatedWarns]_vars

\* A truncated tree: one warning, and its first entry printed as a match.
C14_Witness ==
  /\ ri = 1
  /\ stderr = <<FullName(repos[1])>>
  /\ step.stage = "plain" /\ step.entry = 1
  /\ matched = 1
  /\ stdout = <<Line("plain", repos[1], tree[1].path, 0, <<>>)>>
  /\ walkErr = ""

C14_WitnessFetched ==
  /\ TreeFetched
  /\ step.resp.truncated
  /\ Len(tree) = 2
  /\ stderr = <<FullName(repos[ri])>>
  /\ stdout = <<>>

\* The last step took a file past the depth, type, size, path and name
\* stages with a -no-grep pattern configured, and no call failed.
NoGrepStep ==
  /\ ~config.noGrepRegexp.isNil
  /\ step.stage \in {"noGrep", "grep", "plain", "detail"}
  /\ StepEntry.type = "blob"
  /\ step.fail = ""

\* The lines of the entry that match the -no-grep pattern.
NoGrepMatchingLines ==
  {i \in 1..Len(StepLines) : MatchString(config.noGrepRegexp, StepLines[i])}

\* C15: with a -no-grep pattern P, with or without -grep, a file that
\* reached the stage is rejected (nothing counted, nothing printed, the next
\* entry follows) exactly when its text has a line matching P; a file
\* without such a line goes on and, with no -grep pattern, is a plain match.
C15_NoGrepRejectsExactlyTheFilesMatchingIt ==
  NoGrepStep =>
    /\ walkPc # "panic"
    /\ (step.stage = "noGrep") <=> (~IsBinary /\ NoGrepMatchingLines # {})
    /\ step.stage = "noGrep" =>
         (matched = step.matched /\ repoMatched = step.repoMatched /\ step.out = 0)
    /\ (step.stage # "noGrep" /\ config.grepRegexp.isNil) =>
         (matched = step.matched + 1 /\ repoMatched = step.repoMatched + 1)

\* ------------------------------------------- the functions called on their own
\* Longest path, deepest depth bound, largest sign code and largest size the
\* functions are called with.
MaxPathLen == 4

MaxDepth == 3

MaxOp == 2

MaxSize == 3

\* Longest short stream, longest tail after the peeked bytes, and largest
\* limit grep is called with.
MaxStreamLen == 4

MaxTailLen == 2

MaxLimit == 2

\* The length of the lines of the text that fills the peeked bytes.
PadLineLen == 100

\* The flags of gh-find at their defaults (lines 143-150).
DefaultFlags ==
  [ftype |-> "", grep |-> NoRegexp, noGrep |-> NoRegexp,
   minDepth |-> 0, maxDepth |-> 0,
   maxResults |-> 0, maxRepoResults |-> 0, maxGrepResults |-> 0,
   name |-> <<>>, noName |-> <<>>, path |-> <<>>, noPath |-> <<>>,
   size |-> [isSet |-> FALSE, op |-> 0, value |-> 0, valid |-> TRUE],
   noMatches |-> FALSE, listDetails |-> FALSE, noPrivate |-> FALSE, noPublic |-> FALSE]

\* The lists of -name, -no-name, -path and -no-path patterns: none, one
\* anchored pattern, two patterns.
PatternLists ==
  { <<>>,
    <<Regexp(TRUE, S("foo"))>>,
    <<Regexp(TRUE, S("nope")), Regexp(FALSE, S("bar"))>> }

PathNameFlags ==
  {[DefaultFlags EXCEPT !.name = n, !.noName = nn, !.path = pa, !.noPath = np] :
     n \in PatternLists, nn \in PatternLists, pa \in PatternLists, np \in PatternLists}

\* Entries whose base name and whose path differ in what they match.
PathNameEntries ==
  { Entry(S("foo"), "blob", 1, <<>>),
    Entry(S("bar") \o <<"/">> \o S("foo"), "blob", 1, <<>>),
    Entry(S("foo") \o <<"/">> \o S("bar"), "blob", 1, <<>>),
    Entry(S("foo") \o <<"/">> \o S("baz"), "tree", 0, <<>>),
    Entry(S("baz"), "blob", 1, <<>>) }

InitCalls ==
  /\ CallIdle
  /\ ToolIdle
  /\ filter = RepoFilter(<<>>, NoRegexp, FALSE, FALSE, FALSE, FALSE)
  /\ FindIdle
  /\ ApplyIdle
  /\ WalkIdle

\* Lines 406-448 on one entry: the stage that rejects it, "" when none does.
CallStages(fn, flagSet, entries) ==
  /\ call.fn = ""
  /\ \E f \in flagSet, e \in entries :
       /\ readConfig(f).err = ""
       /\ call' = [fn |-> fn, config |-> readConfig(f).config, entry |-> e]
       /\ ret' = Rejected(readConfig(f).config, e)
  /\ UNCHANGED <<findVars, applyVars, walkVars, toolVars>>

CallPathNameStage == CallStages("pathName", PathNameFlags, PathNameEntries)

\* The paths levels is called with: every text of letters and slashes.
LevelPaths == SeqsUpTo({"a", "/"}, MaxPathLen)

\* levels(path).
CallLevels ==
  /\ call.fn = ""
  /\ \E p \in LevelPaths :
       /\ call' = [fn |-> "levels", path |-> p]
       /\ ret' = levels(p)
  /\ UNCHANGED <<findVars, applyVars, walkVars, toolVars>>

DepthFlags ==
  {[DefaultFlags EXCEPT !.minDepth = lo, !.maxDepth = hi] :
     lo \in 0..MaxDepth, hi \in 0..MaxDepth}

DepthEntries == {Entry(p, "blob", 1, <<>>) : p \in LevelPaths}

CallDepthStage == CallStages("depth", DepthFlags, DepthEntries)

\* The sizes and thresholds match is called with.
SizeValues == 0..MaxSize \cup {1023, 1024, 1025}

\* sizePredicate.match(value) for a predicate of any op.
CallSizeMatch ==
  /\ call.fn = ""
  /\ \E op \in (0 - MaxOp)..MaxOp, threshold \in SizeValues, value \in SizeValues :
       /\ call' = [fn |-> "match", p |-> sizePredicate(op, threshold), value |-> value]
       /\ ret' = sizeMatch(sizePredicate(op, threshold), value)
  /\ UNCHANGED <<findVars, applyVars, walkVars, toolVars>>

\* The bytes of the streams: a letter the patterns match, one they do not,
\* the newline and the zero byte.
StreamBytes == {"x", "y", LF, NUL}

\* k bytes of text without a match, in lines of PadLineLen bytes.
Padding(k) == [i \in 1..k |-> IF i % PadLineLen = 0 THEN LF ELSE "y"]

\* The streams grep is called with: the short ones, and the ones that go on
\* after the peeked bytes, the last of which is text or not.
GrepStreams ==
  SeqsUpTo(StreamBytes, MaxStreamLen) \cup
  {Padding(k) \o tail :
     k \in {PeekLen - 1, PeekLen}, tail \in SeqsUpTo(StreamBytes, MaxTailLen)}

GrepPatterns == {NoRegexp, Regexp(FALSE, <<"x">>), Regexp(TRUE, <<"x">>)}

\* grep(contents, pattern, limit).
CallGrep ==
  /\ call.fn = ""
  /\ \E contents \in GrepStreams, pattern \in GrepPatterns, limit \in (0 - 1)..MaxLimit :
       /\ call' = [fn |-> "grep", contents |-> contents, pattern |-> pattern, limit |-> limit]
       /\ ret' = grep(contents, pattern, limit)
  /\ UNCHANGED <<findVars, applyVars, walkVars, toolVars>>

\* ------------------------------------------------------------ package size
\* An integer is a sequence of limbs of LimbBits bits, the least significant
\* first: an int64 has Int64Limbs of them, and a product of two int64 has
\* WideLimbs.  A negative int64 is its two's complement.
LimbBase == 256

Int64Limbs == 8

WideLimbs == 16

\* x * k + c for a limb sequence x and small k and c, in the limbs of x: the
\* carry out of the last limb is dropped.
RECURSIVE MulAdd(_, _, _)
MulAdd(x, k, c) ==
  IF x = <<>> THEN <<>>
  ELSE <<(Head(x) * k + c) % LimbBase>> \o
       MulAdd(Tail(x), k, (Head(x) * k + c) \div LimbBase)

\* The integer n < LimbBase in WideLimbs limbs.
Wide(n) == [i \in 1..WideLimbs |-> IF i = 1 THEN n ELSE 0]

\* x * k^n.
RECURSIVE MulPow(_, _, _)
MulPow(x, k, n) == IF n = 0 THEN x ELSE MulPow(MulAdd(x, k, 0), k, n - 1)

\* The int64 a Go expression of the wide value x gives: its low 64 bits.
Int64(x) == SubSeq(x, 1, Int64Limbs)

\* An int64 below zero: its sign bit is set.
Negative(v) == v[Int64Limbs] >= LimbBase \div 2

\* The wide value x is within 0..(2^63 - 1).
FitsInt64(x) ==
  /\ \A i \in (Int64Limbs + 1)..WideLimbs : x[i] = 0
  /\ ~Negative(Int64(x))

\* Lines 10-28: the unit constants.  1 << (10 * n) is 1024^n.
Byte == Wide(1)

KiByte == MulPow(Byte, 1024, 1)

MiByte == MulPow(Byte, 1024, 2)

GiByte == MulPow(Byte, 1024, 3)

TiByte == MulPow(Byte, 1024, 4)

PiByte == MulPow(Byte, 1024, 5)

EiByte == MulPow(Byte, 1024, 6)

KByte == MulAdd(Byte, 1000, 0)

MByte == MulAdd(KByte, 1000, 0)

GByte == MulAdd(MByte, 1000, 0)

TByte == MulAdd(GByte, 1000, 0)

PByte == MulAdd(TByte, 1000, 0)

EByte == MulAdd(PByte, 1000, 0)

\* Lines 30-57.
units ==
  (<<>> :> Byte) @@ (<<"b">> :> Byte) @@
  (<<"k">> :> KByte) @@ (<<"m">> :> MByte) @@ (<<"g">> :> GByte) @@
  (<<"t">> :> TByte) @@ (<<"p">> :> PByte) @@ (<<"e">> :> EByte) @@
  (<<"k", "b">> :> KByte) @@ (<<"m", "b">> :> MByte) @@ (<<"g", "b">> :> GByte) @@
  (<<"t", "b">> :> TByte) @@ (<<"p", "b">> :> PByte) @@ (<<"e", "b">> :> EByte) @@
  (<<"k", "i">> :> KiByte) @@ (<<"m", "i">> :> MiByte) @@ (<<"g", "i">> :> GiByte) @@
  (<<"t", "i">> :> TiByte) @@ (<<"p", "i">> :> PiByte) @@ (<<"e", "i">> :> EiByte) @@
  (<<"k", "i", "b">> :> KiByte) @@ (<<"m", "i", "b">> :> MiByte) @@ (<<"g", "i", "b">> :> GiByte) @@
  (<<"t", "i", "b">> :> TiByte) @@ (<<"p", "i", "b">> :> PiByte) @@ (<<"e", "i", "b">> :> EiByte)

errSyntax == "invalid syntax"

Digits == {"0", "1", "2", "3", "4", "5", "6", "7", "8", "9"}

DigitValue(c) ==
  CASE c = "0" -> 0 [] c = "1" -> 1 [] c = "2" -> 2 [] c = "3" -> 3
    [] c = "4" -> 4 [] c = "5" -> 5 [] c = "6" -> 6 [] c = "7" -> 7
    [] c = "8" -> 8 [] c = "9" -> 9

\* strings.ToLower, for the letters of the units.
ToLower(s) ==
  [i \in 1..Len(s) |->
     CASE s[i] = "B" -> "b" [] s[i] = "E" -> "e" [] s[i] = "G" -> "g" [] s[i] = "I" -> "i"
       [] s[i] = "K" -> "k" [] s[i] = "M" -> "m" [] s[i] = "P" -> "p" [] s[i] = "T" -> "t"
       [] OTHER -> s[i]]

\* strings.TrimSpace: the white space at both ends goes.
RECURSIVE TrimSpace(_)
TrimSpace(s) ==
  IF s # <<>> /\ Head(s) \in {" ", LF, CR} THEN TrimSpace(Tail(s))
  ELSE IF s # <<>> /\ s[Len(s)] \in {" ", LF, CR} THEN TrimSpace(SubSeq(s, 1, Len(s) - 1))
  ELSE s

\* Lines 125-139: the number of leading bytes of the input that are digits.
RECURSIVE DigitRun(_)
DigitRun(input) ==
  IF input # <<>> /\ Head(input) \in Digits THEN 1 + DigitRun(Tail(input)) ELSE 0

\* strconv.ParseInt(buf, 10, 64) on a run of digits, as a wide value: the
\* caller finds a range error when it does not fit an int64.
RECURSIVE ParseDigits(_, _)
ParseDigits(buf, acc) ==
  IF buf = <<>> THEN acc
  ELSE ParseDigits(Tail(buf), MulAdd(acc, 10, DigitValue(Head(buf))))

\* Lines 122-146: the number, the error and what is left of the input.
consumeNumber(input) ==
  LET n == DigitRun(input)
      rest == SubSeq(input, n + 1, Len(input))
      number == ParseDigits(SubSeq(input, 1, n), Wide(0))
  IN  IF n = 0 THEN [number |-> Wide(1), err |-> "", rest |-> rest]
      ELSE IF ~FitsInt64(number) THEN [number |-> Wide(0), err |-> errSyntax, rest |-> rest]
      ELSE [number |-> number, err |-> "", rest |-> rest]

\* Lines 114-120.
consumeUnit(rest) ==
  LET name == ToLower(TrimSpace(rest))
  IN  IF name \notin DOMAIN units THEN [unit |-> Wide(0), err |-> errSyntax]
      ELSE [unit |-> units[name], err |-> ""]

\* a + b + c for limb sequences a and b of one length and a carry c.
RECURSIVE Add(_, _, _)
Add(a, b, c) ==
  IF a = <<>> THEN <<>>
  ELSE <<(Head(a) + Head(b) + c) % LimbBase>> \o
       Add(Tail(a), Tail(b), (Head(a) + Head(b) + c) \div LimbBase)

\* x * y for a wide x and the limbs y, in the limbs of x.
RECURSIVE Mul(_, _)
Mul(x, y) ==
  IF y = <<>> THEN Wide(0)
  ELSE Add(MulAdd(x, Head(y), 0),
           <<0>> \o SubSeq(Mul(x, Tail(y)), 1, WideLimbs - 1), 0)

\* Lines 90-112.
parse(input) ==
  IF input = <<>> THEN [value |-> Int64(Wide(0)), err |-> ""]
  ELSE LET n == consumeNumber(input)
           u == consumeUnit(n.rest)
       IN  IF n.err # "" THEN [value |-> Int64(Wide(0)), err |-> n.err]
           ELSE IF u.err # "" THEN [value |-> Int64(Wide(0)), err |-> u.err]
           ELSE [value |-> Int64(Mul(n.number, Int64(u.unit))), err |-> ""]

\* Lines 81-84.
Parse(value) == parse(value)

\* Longest input of Parse drawn from its bytes.
MaxInputLen == 3

\* The inputs of TestSizeParse (size_test.go:14-28).
TestSizeParseInputs ==
  { <<>>, <<"0">>, <<"1">>, <<"b">>, <<"1", "0", "b">>, <<"5", "0", "0", "m", "b">>, <<"2", "4", "G", "b">>,
    <<"1", "8", " ", "T", "i", "b">>, <<"5", " ", "E", "i", "B">>, S("foo"), <<"5", "b", "a", "r">>, <<"1", "0", " ", "K", "B", "a", "z">>, <<"-", "5", " ", "M", "b">> }

\* The inputs of Parse: every text of up to MaxInputLen digits, unit letters
\* of both cases, spaces, minus signs and letters of no unit; the inputs of
\* the test; and inputs around the largest int64, 9223372036854775807.
ParseInputs ==
  SeqsUpTo({"1", "9", "e", "i", "b", "K", " ", "-", "x"}, MaxInputLen) \cup
  TestSizeParseInputs \cup
  { <<"9", "2", "2", "3", "3", "7", "2", "0", "3", "6", "8", "5", "4", "7", "7", "5", "8", "0", "7">>, <<"9", "2", "2", "3", "3", "7", "2", "0", "3", "6", "8", "5", "4", "7", "7", "5", "8", "0", "8">>,
    <<"9", "2", "2", "3", "3", "7", "2", "0", "3", "6", "8", "5", "4", "7", "7", "5", "8", "0", "7", "b">>, <<"9", "9", "9", "9", "9", "9", "9", "9", "9", "9", "9", "9", "9", "9", "9", "9", "9", "9", "9", "9">>,
    <<"1", "0", "e", "b">>, <<"1", "6", "e", "i">>, <<"9", "2", "2", "3", "3", "7", "2", "0", "3", "6", "8", "5", "4", "7", "7", "5", "8", "0", "7", "k">> }

\* size.Parse(value).
CallParse ==
  /\ call.fn = ""
  /\ \E value \in ParseInputs :
       /\ call' = [fn |-> "Parse", value |-> value]
       /\ ret' = Parse(value)
  /\ UNCHANGED <<findVars, applyVars, walkVars, toolVars>>

\* The flags the entry loop is called with: each budget, bound, predicate and
\* pattern absent or present, the details asked for.
StageFlags ==
  {[DefaultFlags EXCEPT
      !.ftype = t, !.grep = g, !.noGrep = ng, !.minDepth = d, !.maxResults = mr,
      !.maxRepoResults = mrr, !.size = sz, !.name = n, !.noName = nn, !.path = pa,
      !.noPath = np, !.listDetails = TRUE] :
     t \in {"", typeDir},
     g \in {NoRegexp, Regexp(FALSE, <<"x">>)},
     ng \in {NoRegexp, Regexp(FALSE, <<"y">>)},
     d \in {0, 2},
     mr \in {0, 1},
     mrr \in {0, 1},
     sz \in {[isSet |-> FALSE, op |-> 0, value |-> 0, valid |-> TRUE],
             [isSet |-> TRUE, op |-> 1, value |-> 2, valid |-> TRUE]},
     n \in {<<>>, <<Regexp(TRUE, S("f"))>>},
     nn \in {<<>>, <<Regexp(TRUE, S("ba"))>>},
     pa \in {<<>>, <<Regexp(TRUE, S("foo"))>>},
     np \in {<<>>, <<Regexp(TRUE, S("bar"))>>}}

\* Entries that differ in the stage that rejects them.
StageEntries ==
  { Entry(S("foo"), "blob", 1, <<"x">>),
    Entry(S("bar") \o <<"/">> \o S("foo"), "blob", 3, <<"x", LF, "y">>),
    Entry(S("foo") \o <<"/">> \o S("bar"), "blob", 3, <<"x", LF, "x">>),
    Entry(S("foo") \o <<"/">> \o S("baz"), "tree", 0, <<>>),
    Entry(S("foo") \o <<"/">> \o S("foo"), "blob", 3, <<"x", LF, "z">>),
    Entry(S("foo") \o <<"/">> \o S("fob"), "blob", 3, <<"z", LF, "z">>) }

\* What the API answers to the download of the no-grep stage, to the one of
\* the grep stage and to the commit lookup: one failure at most.
StageAnswers ==
  { [d1 |-> "ok", d2 |-> "ok", c |-> "ok"],
    [d1 |-> "error", d2 |-> "ok", c |-> "ok"],
    [d1 |-> "ok", d2 |-> "error", c |-> "ok"],
    [d1 |-> "ok", d2 |-> "ok", c |-> "error"] }

\* The body of the nextEntry loop (lines 396-497) on one entry.
CallEvalEntry ==
  /\ call.fn = ""
  /\ \E f \in StageFlags, e \in StageEntries, n \in {<<0, 0>>, <<1, 0>>, <<1, 1>>}, a \in StageAnswers :
       /\ readConfig(f).err = ""
       /\ call' = [fn |-> "EvalEntry", config |-> readConfig(f).config, entry |-> e,
                   matched |-> n[1], repoMatched |-> n[2], answers |-> a]
       /\ ret' = EvalEntry(readConfig(f).config, S("foo"), e, n[1], n[2], a.d1, a.d2, a.c)
  /\ UNCHANGED <<findVars, applyVars, walkVars, toolVars>>

NextCalls ==
  CallPathNameStage \/ CallLevels \/ CallDepthStage \/ CallSizeMatch \/ CallGrep
    \/ CallParse \/ CallEvalEntry

SpecCalls == InitCalls /\ [][NextCalls]_vars

\* The last component of a path: its longest suffix without a slash.
LastComponent(path) ==
  CHOOSE s \in {SubSeq(path, k, Len(path)) : k \in 1..(Len(path) + 1)} :
    /\ \A i \in 1..Len(s) : s[i] # "/"
    /\ Len(s) = Len(path) \/ path[Len(path) - Len(s)] = "/"

\* Some pattern of the list matches the text.
SomeMatches(list, text) == \E i \in 1..Len(list) : MatchString(list[i], text)

\* C16: an entry passes the path and name stage exactly when no -no-path
\* pattern matches its path, the -path list is empty or one of its patterns
\* matches the path, no -no-name pattern matches its last path component,
\* and the -name list is empty or one of its patterns matches that
\* component; an empty list rejects nothing.
C16_PathAndNameStage ==
  call.fn = "pathName" =>
    /\ ret \in {"", "noPath", "path", "noName", "name"}
    /\ (ret = "") <=>
         /\ ~SomeMatches(call.config.noPathRegexp, call.entry.path)
         /\ call.config.pathRegexp = <<>>
              \/ SomeMatches(call.config.pathRegexp, call.entry.path)
         /\ ~SomeMatches(call.config.noNameRegexp, LastComponent(call.entry.path))
         /\ call.config.nameRegexp = <<>>
              \/ SomeMatches(call.config.nameRegexp, LastComponent(call.entry.path))
    /\ (call.config.noPathRegexp = <<>> /\ call.config.pathRegexp = <<>>
          /\ call.config.noNameRegexp = <<>> /\ call.config.nameRegexp = <<>>) => ret = ""

\* -name ^foo lets bar/foo pass, whose path does not begin with foo.
C16_Witness ==
  /\ call.fn = "pathName"
  /\ call.config.nameRegexp = <<Regexp(TRUE, S("foo"))>>
  /\ call.config.noNameRegexp = <<>> /\ call.config.pathRegexp = <<>>
  /\ call.config.noPathRegexp = <<>>
  /\ call.entry.path = S("bar") \o <<"/">> \o S("foo")
  /\ ret = ""

\* -no-name ^foo lets foo/bar pass and -path ^foo accepts it.
C16_WitnessPath ==
  /\ call.fn = "pathName"
  /\ call.config.noNameRegexp = <<Regexp(TRUE, S("foo"))>>
  /\ call.config.pathRegexp = <<Regexp(TRUE, S("foo"))>>
  /\ call.config.nameRegexp = <<>> /\ call.config.noPathRegexp = <<>>
  /\ call.entry.path = S("foo") \o <<"/">> \o S("bar")
  /\ ret = ""

\* The number of slashes of a path.
Slashes(path) == Cardinality({i \in 1..Len(path) : path[i] = "/"})

\* C17: levels(p) is one more than the number of slashes of p, and the depth
\* stage rejects an entry exactly when min-depth > 0 and its levels are
\* below it, or max-depth > 0 and its levels are above it.
C17_LevelsAndDepthStage ==
  /\ call.fn = "levels" => ret = 1 + Slashes(call.path)
  /\ call.fn = "depth" =>
       /\ ret \in {"", "depth"}
       /\ (ret = "depth") <=>
            \/ call.config.minDepth > 0 /\ 1 + Slashes(call.entry.path) < call.config.minDepth
            \/ call.config.maxDepth > 0 /\ 1 + Slashes(call.entry.path) > call.config.maxDepth

\* levels("a//a") = 3.
C17_Witness ==
  /\ call.fn = "levels"
  /\ call.path = <<"a", "/", "/", "a">>
  /\ ret = 3

\* levels("") = 1 and levels("/") = 2.
C17_WitnessEmpty == call.fn = "levels" /\ call.path = <<>> /\ ret = 1

C17_WitnessSlash == call.fn = "levels" /\ call.path = <<"/">> /\ ret = 2

\* a/a/a is too deep for -max-depth 2; a is too shallow for -min-depth 2.
C17_WitnessTooDeep ==
  /\ call.fn = "depth"
  /\ call.config.maxDepth = 2 /\ call.config.minDepth = 0
  /\ call.entry.path = <<"a", "/", "a", "/">>
  /\ ret = "depth"

C17_WitnessTooShallow ==
  /\ call.fn = "depth"
  /\ call.config.minDepth = 2 /\ call.config.maxDepth = 3
  /\ call.entry.path = <<"a">>
  /\ ret = "depth"

\* C18: match(v) goes by the sign of op, for every integer op: below zero
\* it is v <= threshold, zero v = threshold, above zero v >= threshold.
C18_SizeMatchGoesByTheSignOfOp ==
  call.fn = "match" =>
    ret = IF call.p.op < 0 THEN call.value <= call.p.value
          ELSE IF call.p.op = 0 THEN call.value = call.p.value
          ELSE call.value >= call.p.value

\* grep was called with a pattern.
GrepCalled == call.fn = "grep" /\ ~call.pattern.isNil

\* One of the first 256 bytes of the stream, or of the whole stream when
\* it is shorter, is the zero byte.
ZeroByteAtTheStart ==
  \E i \in 1..Len(call.contents) : i <= 256 /\ call.contents[i] = NUL

\* The lines of the stream and the numbers of those the pattern matches.
CallLines == ScanLines(call.contents)

CallMatching == {i \in 1..Len(CallLines) : MatchString(call.pattern, CallLines[i])}

C19_WitnessBinary ==
  /\ GrepCalled
  /\ Len(call.contents) = 257
  /\ call.contents[256] = NUL
  /\ call.contents[257] = "x"
  /\ ret.isBinary
  /\ ret.matches = <<>>

\* The number of matches a limit lets through.
Limited(n) == IF call.limit > 0 THEN Min(n, call.limit) ELSE n

C20_WitnessUnlimited ==
  /\ GrepCalled
  /\ call.contents = <<"x", LF, LF, "x">>
  /\ call.limit = 0 - 1
  /\ Len(ret.matches) = 2
  /\ ret.matches[2].lineno = 3

\* A match after the peeked bytes keeps its number in the whole file.
C20_WitnessAfterPeek ==
  /\ GrepCalled
  /\ Len(call.contents) = 258
  /\ call.contents[257] = "x"
  /\ call.contents[258] = LF
  /\ ret.matches = <<[line |-> Padding(56) \o <<"x">>, lineno |-> 3]>>

\* A pattern that matches no line: an empty result.
C20_WitnessNoMatch ==
  /\ GrepCalled
  /\ call.contents = <<"y", LF, "y">>
  /\ ~ret.isNil
  /\ ret.matches = <<>>

\* ------------------------------------------------------------- size.Parse
ParseCalled == call.fn = "Parse"

\* The letters of the units above the byte, smallest first.
UnitLetters == <<"k", "m", "g", "t", "p", "e">>

\* The names of the unit table and what each multiplies by: "" and b are 1,
\* a letter with an optional b is a power of 1000, a letter and i with an
\* optional b is a power of 1024.
UnitNames ==
  {<<>>, <<"b">>} \cup
  UNION {{<<UnitLetters[n]>>, <<UnitLetters[n], "b">>,
          <<UnitLetters[n], "i">>, <<UnitLetters[n], "i", "b">>} : n \in 1..6}

\* The input with its leading digits taken off.
AfterDigits(input) ==
  CHOOSE s \in {SubSeq(input, k, Len(input)) : k \in 1..(Len(input) + 1)} :
    /\ s = <<>> \/ s[1] \notin Digits
    /\ \A i \in 1..(Len(input) - Len(s)) : input[i] \in Digits

LeadingDigits(input) == SubSeq(input, 1, Len(input) - Len(AfterDigits(input)))

\* The unit of the input: what follows the digits, without the spaces around
\* it, in lower case.
UnitOf(input) == ToLower(TrimSpace(AfterDigits(input)))

\* An optional run of digits followed by a unit of the table.
WellFormed(input) == UnitOf(input) \in UnitNames

\* The number a run of digits writes, to any size the wide limbs hold.
RECURSIVE Decimal(_)
Decimal(digits) ==
  IF digits = <<>> THEN Wide(0)
  ELSE MulAdd(Decimal(SubSeq(digits, 1, Len(digits) - 1)), 10,
              DigitValue(digits[Len(digits)]))

\* Digits times unit as a number: 0 for the empty input, missing digits
\* counting as 1.
Product(input) ==
  IF input = <<>> THEN Wide(0)
  ELSE LET digits == IF LeadingDigits(input) = <<>> THEN Wide(1)
                     ELSE Decimal(LeadingDigits(input))
           name == UnitOf(input)
       IN  IF name \in {<<>>, <<"b">>} THEN digits
           ELSE MulPow(digits, IF Len(name) >= 2 /\ name[2] = "i" THEN 1024 ELSE 1000,
                       CHOOSE k \in 1..6 : name[1] = UnitLetters[k])

\* An int64 that is not negative, as a wide value.
Widen(v) == v \o [i \in 1..(WideLimbs - Int64Limbs) |-> 0]

\* C21: Parse accepts exactly the inputs made of an optional run of digits
\* and a unit of the table (spaces trimmed, lower-cased) and returns digits
\* times unit, 0 for the empty input and missing digits counting as 1; every
\* other input gives the syntax error and the value 0.
C21_ParseAcceptsWellFormedAndReturnsTheProduct ==
  ParseCalled =>
    IF WellFormed(call.value)
    THEN /\ ret.err = ""
         /\ ~Negative(ret.value)
         /\ Widen(ret.value) = Product(call.value)
    ELSE /\ ret.err = errSyntax
         /\ ret.value = Int64(Wide(0))

\* C29: Parse never wraps around: the value of an accepted input is the
\* product of its number and its unit as numbers, so it is not negative, and
\* an input whose product is beyond the int64 range is rejected.
C29_ParseNeverWraps ==
  ParseCalled =>
    /\ ret.err = "" =>
          /\ ~Negative(ret.value)
          /\ Widen(ret.value) = Product(call.value)
    /\ (WellFormed(call.value) /\ ~FitsInt64(Product(call.value))) => ret.err # ""

\* ---------------------------------------------------------------- gh-find run
\* The flags run is started with: each of the values readConfig refuses next
\* to values it takes.
RunFlags ==
  [ftype : {"", typeFile, typeDir, "x"},
   grep : {NoRegexp, Regexp(FALSE, <<"x">>)}, noGrep : {NoRegexp, Regexp(FALSE, <<"y">>)},
   minDepth : {0 - 1, 0, 2}, maxDepth : {0 - 1, 0, 1},
   maxResults : {0 - 1, 0}, maxRepoResults : {0 - 1, 0}, maxGrepResults : {0 - 1, 0},
   name : {<<>>}, noName : {<<>>}, path : {<<>>}, noPath : {<<>>},
   size : {[isSet |-> FALSE, op |-> 0, value |-> 0, valid |-> TRUE],
           [isSet |-> TRUE, op |-> 1, value |-> 1, valid |-> TRUE],
           [isSet |-> TRUE, op |-> 0, value |-> 0, valid |-> FALSE]},
   noMatches : {FALSE}, listDetails : {FALSE},
   noPrivate : BOOLEAN, noPublic : BOOLEAN]

RunEntries ==
  { Entry(<<"a">>, "blob", 1, <<"x">>),
    Entry(<<"d">>, "tree", 0, <<>>) }

InitRun ==
  /\ config = readConfig(DefaultFlags).config
  /\ universe = RunEntries
  /\ repos = <<>>
  /\ ri = 0
  /\ tree = <<>>
  /\ ei = 0
  /\ matched = 0
  /\ repoMatched = 0
  /\ prevRepo = <<>>
  /\ stdout = <<>>
  /\ stderr = <<>>
  /\ apiLog = <<>>
  /\ walkPc = "run"
  /\ walkErr = ""
  /\ step = [stage |-> "", entry |-> 0, matched |-> 0, repoMatched |-> 0, calls |-> 0, out |-> 0,
             resp |-> NoResponse, fail |-> ""]
  /\ repoLog = <<>>
  /\ filter = RepoFilter(<<>>, NoRegexp, FALSE, FALSE, FALSE, FALSE)
  /\ FindIdle
  /\ ApplyIdle
  /\ CallIdle
  /\ ToolIdle

\* Lines 323-325: the error of readConfig ends run.
runReturnsAnywayMutant(r) == FALSE

runReturnsTheError(r) == r.err # ""

\* Lines 316-343: run up to the call of find.
run ==
  /\ walkPc = "run"
  /\ \E flags \in RunFlags, token \in {"", "t"} :
       \E r \in {readConfig(flags)} :
         /\ call' = [fn |-> "run", flags |-> flags, token |-> token]
         /\ ret' = r
         /\ IF runReturnsTheError(r)
              THEN WalkReturn(r.err) /\ UNCHANGED config
            ELSE IF token = ""
              THEN WalkReturn("access token is required") /\ UNCHANGED config
            ELSE /\ config' = r.config
                 /\ walkPc' = "find"
                 /\ UNCHANGED walkErr
  /\ UNCHANGED <<universe, repos, ri, tree, ei, matched, repoMatched, prevRepo,
                 stdout, stderr, apiLog, step, repoLog, findVars, applyVars, toolVars>>

NextRun == run \/ NextWalk

SpecRun == InitRun /\ [][NextRun]_vars

RunCalled == call.fn = "run"

\* The flags the claim names as configuration errors.
Misconfigured(flags) ==
  \/ flags.noPrivate /\ flags.noPublic
  \/ flags.minDepth < 0
  \/ flags.maxDepth < 0
  \/ flags.maxResults < 0
  \/ flags.maxRepoResults < 0
  \/ flags.maxGrepResults < 0
  \/ flags.minDepth > 0 /\ flags.maxDepth > 0 /\ flags.maxDepth < flags.minDepth
  \/ flags.ftype \notin {"", typeFile, typeDir}
  \/ flags.size.isSet /\ ~flags.size.valid

\* C22: when -no-private and -no-public are both set, a depth or a budget is
\* negative, both depths are positive and max-depth < min-depth, -type is
\* given and is neither f nor d, or the size does not parse, readConfig
\* returns an error, run returns it, and no API call is made: find is never
\* entered.
C22_ConfigurationErrorsPrecedeTheNetwork ==
  (RunCalled /\ Misconfigured(call.flags)) =>
    /\ ret.err # ""
    /\ walkPc = "done"
    /\ walkErr = ret.err
    /\ apiLog = <<>>
    /\ step.stage = ""

C22_Witness ==
  /\ RunCalled
  /\ call.token = "t"
  /\ call.flags.size.isSet /\ ~call.flags.size.valid
  /\ ~(call.flags.noPrivate /\ call.flags.noPublic)
  /\ call.flags.minDepth = 2 /\ call.flags.maxDepth = 0
  /\ walkPc = "done"
  /\ walkErr = "invalid size"
  /\ apiLog = <<>>

\* ---------------------------------------------------------------- gh-watch
\* Largest number of repositories the API lists for the owner.
MaxToolRepos == 2

\* The repositories of the owner.
ToolRepositories ==
  { Repo(S("foo"), FALSE, FALSE, FALSE),
    Repo(S("bar"), FALSE, FALSE, FALSE),
    Repo(S("baz"), FALSE, FALSE, FALSE) }

\* What the API lists: repositories of distinct names.
RepoListings ==
  {q \in SeqsUpTo(ToolRepositories, MaxToolRepos) :
     Distinct([i \in 1..Len(q) |-> q[i].name])}

\* What RepoFinder.Find returns for a listing when no call fails
\* (repo.go:33-63): nothing with NoPrivate and NoPublic, the repository
\* itself in single-repository mode, the listing filtered by apply otherwise.
Find(listing, f) ==
  IF f.NoPrivate /\ f.NoPublic THEN <<>>
  ELSE IF f.Repo # <<>> THEN <<Repo(f.Repo, FALSE, FALSE, FALSE)>>
  ELSE apply(Slice(listing), f).elems

\* The config of gh-watch as its readConfig returns it (lines 46-54).
WatchConfigs ==
  [repo : {<<>>, S("bar")},
   repoRegexp : {NoRegexp, Regexp(TRUE, S("ba"))},
   noRepoRegexp : {NoRegexp, Regexp(FALSE, S("bar"))},
   watch : BOOLEAN, unwatch : BOOLEAN]

\* A *github.Subscription: nil, or its Subscribed and Ignored fields.
NilSubscription == [isNil |-> TRUE, subscribed |-> FALSE, ignored |-> FALSE]

Subscription(subscribed, ignored) ==
  [isNil |-> FALSE, subscribed |-> subscribed, ignored |-> ignored]

Subscriptions ==
  {NilSubscription} \cup {Subscription(s, i) : s \in BOOLEAN, i \in BOOLEAN}

\* sub.GetSubscribed(): false on a nil subscription.
GetSubscribed(sub) == ~sub.isNil /\ sub.subscribed

\* Lines 156-168.
subscriptionStatus(sub) ==
  IF sub.isNil THEN "not watching"
  ELSE IF sub.ignored THEN "ignoring"
  ELSE "watching"

\* One API call of a tool, with what it answered where that matters.
ToolCall(apiName, repo, answer, failed) ==
  [api |-> apiName, repo |-> repo, answer |-> answer, failed |-> failed]

InitWatch ==
  /\ subscriber \in
       {[pc |-> "find", config |-> c, repos |-> <<>>, i |-> 0,
         calls |-> <<>>, stdout |-> <<>>, err |-> ""] : c \in WatchConfigs}
  /\ purger = [pc |-> "idle"]
  /\ filter = RepoFilter(<<>>, NoRegexp, FALSE, FALSE, FALSE, FALSE)
  /\ FindIdle
  /\ ApplyIdle
  /\ WalkIdle
  /\ CallIdle

\* Lines 171-178: the repositories to go through.
subscriberFind ==
  /\ subscriber.pc = "find"
  /\ \/ subscriber' = [subscriber EXCEPT !.pc = "done", !.err = "can't read repositories"]
     \/ \E listing \in RepoListings :
          subscriber' =
            [subscriber EXCEPT
               !.pc = "repos",
               !.repos = Find(listing,
                              RepoFilter(subscriber.config.repo, subscriber.config.repoRegexp,
                                         FALSE, FALSE, FALSE, FALSE))]
  /\ UNCHANGED <<findVars, applyVars, walkVars, callVars, purger>>

\* Line 194: the repository is to be subscribed to.
subscriberWatchesWhateverTheStatusMutant(cfg, sub) == cfg.watch

subscriberWatches(cfg, sub) == cfg.watch /\ ~GetSubscribed(sub)

\* Line 204: the subscription is to be deleted.
subscriberUnwatches(cfg, sub) == cfg.unwatch /\ GetSubscribed(sub)

\* Lines 180-216: one repository; sub is what GetRepositorySubscription
\* answers and change what the mutating call does.
subscriberRepo ==
  /\ subscriber.pc = "repos"
  /\ subscriber.i < Len(subscriber.repos)
  /\ \E get \in {"ok", "error"}, sub \in Subscriptions, change \in {"ok", "error"} :
       LET repo == subscriber.repos[subscriber.i + 1]
           cfg == subscriber.config
           got == ToolCall("Activity.GetRepositorySubscription", repo.name,
                         IF get = "error" THEN NilSubscription ELSE sub, get = "error")
           mutation ==
             IF subscriberWatches(cfg, sub)
               THEN <<ToolCall("Activity.SetRepositorySubscription", repo.name,
                               Subscription(TRUE, FALSE), change = "error")>>
             ELSE IF subscriberUnwatches(cfg, sub)
               THEN <<ToolCall("Activity.DeleteRepositorySubscription", repo.name,
                               NilSubscription, change = "error")>>
             ELSE <<>>
           after ==
             IF mutation = <<>> \/ change = "error" THEN ""
             ELSE subscriptionStatus(mutation[1].answer)
       IN  IF get = "error"
             THEN subscriber' =
                    [subscriber EXCEPT
                       !.i = @ + 1,
                       !.calls = Append(@, got),
                       !.stdout = Append(@, [repo |-> FullName(repo.name), status |-> "", after |-> ""]),
                       !.pc = "done",
                       !.err = "subscription lookup failed"]
           ELSE subscriber' =
                  [subscriber EXCEPT
                     !.i = @ + 1,
                     !.calls = Append(@, got) \o mutation,
                     !.stdout = Append(@, [repo |-> FullName(repo.name),
                                           status |-> subscriptionStatus(sub),
                                           after |-> after]),
                     !.pc = IF mutation # <<>> /\ change = "error" THEN "done" ELSE @,
                     !.err = IF mutation # <<>> /\ change = "error"
                               THEN "subscription change failed" ELSE @]
  /\ UNCHANGED <<findVars, applyVars, walkVars, callVars, purger>>

\* Line 218: after the last repository.
subscriberReturn ==
  /\ subscriber.pc = "repos"
  /\ subscriber.i = Len(subscriber.repos)
  /\ subscriber' = [subscriber EXCEPT !.pc = "done"]
  /\ UNCHANGED <<findVars, applyVars, walkVars, callVars, purger>>

NextWatch == subscriberFind \/ subscriberRepo \/ subscriberReturn

SpecWatch == InitWatch /\ [][NextWatch]_vars

\* ------------------------------------------------------- gh-purge-artifacts
\* Largest number of artifacts of one repository.
MaxArtifacts == 2

\* The config of gh-purge-artifacts as its readConfig returns it (lines 46-53).
PurgeConfigs ==
  [repo : {<<>>, S("bar")},
   repoRegexp : {NoRegexp, Regexp(TRUE, S("ba"))},
   noRepoRegexp : {NoRegexp, Regexp(FALSE, S("bar"))},
   dryRun : BOOLEAN]

\* A *github.Artifact: GetID and GetSizeInBytes.
Artifact(id, sizeInBytes) == [id |-> id, size |-> sizeInBytes]

\* The artifacts of a repository: up to MaxArtifacts, of distinct ids.
ArtifactLists ==
  {q \in SeqsUpTo({Artifact(1, 2), Artifact(2, 3), Artifact(3, 0)}, MaxArtifacts) :
     Distinct([i \in 1..Len(q) |-> q[i].id])}

\* What Actions.ListArtifacts serves for one repository: the artifacts in one
\* page, or in two.
ArtifactPages ==
  {<<a>> : a \in ArtifactLists} \cup
  {<<SubSeq(a, 1, k), SubSeq(a, k + 1, Len(a))>> :
     a \in {b \in ArtifactLists : Len(b) >= 2}, k \in 1..(MaxArtifacts - 1)}

\* A line of the output: the repository (or Total:), found or purged, and the
\* three values printed; closed once the newline is out.
PurgeLine(repo, verb, n, outOf, bytes, closed) ==
  [repo |-> repo, verb |-> verb, n |-> n, outOf |-> outOf, bytes |-> bytes, closed |-> closed]

InitPurge ==
  /\ purger \in
       {[pc |-> "find", config |-> c, repos |-> <<>>, i |-> 0,
         pages |-> <<>>, page |-> 0, artifacts |-> <<>>, j |-> 0,
         deleted |-> 0, deletedSize |-> 0, totalDeleted |-> 0, totalSize |-> 0,
         listings |-> <<>>, calls |-> <<>>, stdout |-> <<>>, err |-> ""] : c \in PurgeConfigs}
  /\ subscriber = [pc |-> "idle"]
  /\ filter = RepoFilter(<<>>, NoRegexp, FALSE, FALSE, FALSE, FALSE)
  /\ FindIdle
  /\ ApplyIdle
  /\ WalkIdle
  /\ CallIdle

\* The for loop of line 166: the next repository, or the end of purge.
PurgeLoop(n, all) == IF n < Len(all) THEN "list" ELSE "return"

\* Lines 156-163: the repositories to go through.
purgerFind ==
  /\ purger.pc = "find"
  /\ \/ purger' = [purger EXCEPT !.pc = "done", !.err = "can't read repositories"]
     \/ \E listing \in RepoListings :
          \E found \in {Find(listing, RepoFilter(purger.config.repo, purger.config.repoRegexp,
                                                 FALSE, FALSE, FALSE, FALSE))} :
            purger' = [purger EXCEPT !.pc = PurgeLoop(0, found), !.repos = found]
  /\ UNCHANGED <<findVars, applyVars, walkVars, callVars, subscriber>>

\* Lines 194-208: one page of the artifacts of the repository; after the
\* last page the name of the repository is printed.
purgerListArtifacts ==
  /\ purger.pc = "list"
  /\ \E pages \in (IF purger.page = 0 THEN ArtifactPages ELSE {purger.pages}),
        answer \in {"ok", "error"} :
       LET repo == purger.repos[purger.i + 1]
           listed == purger.artifacts \o pages[purger.page + 1]
           listCall == ToolCall("Actions.ListArtifacts", repo.name, purger.page, answer = "error")
       IN  IF answer = "error"
             THEN purger' = [purger EXCEPT !.calls = Append(@, listCall),
                                           !.pc = "done", !.err = "list failed"]
           ELSE IF purger.page + 1 < Len(pages)   \* resp.NextPage # 0
             THEN purger' = [purger EXCEPT !.calls = Append(@, listCall),
                                           !.pages = pages,
                                           !.page = @ + 1,
                                           !.artifacts = listed]
           ELSE purger' = [purger EXCEPT !.calls = Append(@, listCall),
                                         !.pages = pages,
                                         !.page = 0,
                                         !.artifacts = listed,
                                         !.listings = Append(@, listed),
                                         !.j = 0, !.deleted = 0, !.deletedSize = 0,
                                         !.stdout = Append(@, PurgeLine(FullName(repo.name), "", 0, 0, 0, FALSE)),
                                         !.pc = "artifacts"]
  /\ UNCHANGED <<findVars, applyVars, walkVars, callVars, subscriber>>

\* Lines 211-221: the deferred end of the line of the repository.
PurgeReport(p) ==
  [p.stdout EXCEPT ![Len(p.stdout)] =
     IF p.deleted > 0
       THEN PurgeLine(@.repo, IF p.config.dryRun THEN "found" ELSE "purged",
                      Len(p.artifacts), p.deleted, p.deletedSize, TRUE)
       ELSE [@ EXCEPT !.closed = TRUE]]

\* Line 223: the artifact is deleted for real.
purgerDeletesInDryRunMutant(cfg) == TRUE

purgerDeletes(cfg) == ~cfg.dryRun

\* Lines 222-232: one artifact.
purgerArtifact ==
  /\ purger.pc = "artifacts"
  /\ purger.j < Len(purger.artifacts)
  /\ \E answer \in {"ok", "error"} :
       LET repo == purger.repos[purger.i + 1]
           artifact == purger.artifacts[purger.j + 1]
           deleteCall == ToolCall("Actions.DeleteArtifact", repo.name, artifact.id, answer = "error")
       IN  IF purgerDeletes(purger.config) /\ answer = "error"
             THEN purger' = [purger EXCEPT !.calls = Append(@, deleteCall),
                                           !.stdout = PurgeReport(purger),
                                           !.pc = "done", !.err = "delete failed"]
           ELSE purger' = [purger EXCEPT
                             !.calls = IF purgerDeletes(purger.config)
                                         THEN Append(@, deleteCall) ELSE @,
                             !.j = @ + 1,
                             !.deleted = @ + 1,
                             !.deletedSize = @ + artifact.size]
  /\ UNCHANGED <<findVars, applyVars, walkVars, callVars, subscriber>>

\* Lines 234 and 167-172: the repository is done.
purgerRepoReturn ==
  /\ purger.pc = "artifacts"
  /\ purger.j = Len(purger.artifacts)
  /\ purger' = [purger EXCEPT !.stdout = PurgeReport(purger),
                              !.totalDeleted = @ + purger.deleted,
                              !.totalSize = @ + purger.deletedSize,
                              !.i = @ + 1,
                              !.artifacts = <<>>,
                              !.pages = <<>>,
                              !.pc = PurgeLoop(purger.i + 1, purger.repos)]
  /\ UNCHANGED <<findVars, applyVars, walkVars, callVars, subscriber>>

\* Lines 175-185: the totals, for more than one repository.
purgerReturn ==
  /\ purger.pc = "return"
  /\ purger' = [purger EXCEPT
                  !.stdout = IF Len(purger.repos) > 1
                               THEN Append(@, PurgeLine(<<"Total:">>,
                                                        IF purger.config.dryRun THEN "found" ELSE "purged",
                                                        purger.totalDeleted, Len(purger.repos),
                                                        purger.totalSize, TRUE))
                             ELSE @,
                  !.pc = "done"]
  /\ UNCHANGED <<findVars, applyVars, walkVars, callVars, subscriber>>

NextPurge ==
  purgerFind \/ purgerListArtifacts \/ purgerArtifact \/ purgerRepoReturn \/ purgerReturn

SpecPurge == InitPurge /\ [][NextPurge]_vars

SubscriberRuns == subscriber.pc # "idle"

PurgerRuns == purger.pc # "idle"

\* C23: with a -no-repo pattern, in filtered-list mode, no repository whose
\* name matches the pattern is among those gh-watch operates on: none of its
\* API calls is for such a repository.
C23_NoRepoExcludesTheMatchingRepositories ==
  (SubscriberRuns /\ ~subscriber.config.noRepoRegexp.isNil /\ subscriber.config.repo = <<>>) =>
    /\ \A n \in 1..Len(subscriber.repos) :
         ~MatchString(subscriber.config.noRepoRegexp, subscriber.repos[n].name)
    /\ \A k \in 1..Len(subscriber.calls) :
         ~MatchString(subscriber.config.noRepoRegexp, subscriber.calls[k].repo)

\* The index of the calls of a tool that delete artifacts of a repository.
DeleteCalls(repo) ==
  SelectSeq(purger.calls,
            LAMBDA c : c.api = "Actions.DeleteArtifact" /\ c.repo = repo)

Ids(artifacts) == [k \in 1..Len(artifacts) |-> artifacts[k].id]

RECURSIVE SumOfSizes(_)
SumOfSizes(artifacts) ==
  IF artifacts = <<>> THEN 0 ELSE Head(artifacts).size + SumOfSizes(Tail(artifacts))

\* The repository whose artifacts are gone through: the one after the i done.
PurgingNow(n) == purger.pc \in {"artifacts", "done"} /\ n = purger.i + 1

\* C24: with -dry-run no DeleteArtifact call is issued, whatever the
\* repositories and their artifacts, and the artifacts listed are counted and
\* reported as found; without it DeleteArtifact is issued once per listed
\* artifact, in the order of the listing, up to the first call that fails,
\* which ends the run.
C24_DryRunDeletesNothing ==
  PurgerRuns =>
    /\ \A k \in 1..Len(purger.calls) :
         /\ (purger.config.dryRun => purger.calls[k].api # "Actions.DeleteArtifact")
         /\ (purger.calls[k].failed =>
               k = Len(purger.calls) /\ purger.pc = "done" /\ purger.err # "")
    /\ \A n \in 1..Len(purger.listings) :
         LET listed == purger.listings[n]
             issued == DeleteCalls(purger.repos[n].name)
             gone == IF ~PurgingNow(n) THEN Len(listed)
                     ELSE IF purger.pc = "done" THEN purger.j + 1 ELSE purger.j
         IN  /\ ~purger.config.dryRun =>
                  [k \in 1..Len(issued) |-> issued[k].answer] = SubSeq(Ids(listed), 1, gone)
             /\ (purger.config.dryRun /\ ~PurgingNow(n)) =>
                  purger.stdout[n] =
                    IF listed = <<>>
                      THEN PurgeLine(FullName(purger.repos[n].name), "", 0, 0, 0, TRUE)
                      ELSE PurgeLine(FullName(purger.repos[n].name), "found",
                                     Len(listed), Len(listed), SumOfSizes(listed), TRUE)
    /\ (purger.config.dryRun /\ purger.pc = "artifacts") => purger.deleted = purger.j
    /\ purger.pc \in {"list", "return"} =>
         /\ purger.totalDeleted =
              SumOfSizes([n \in 1..Len(purger.listings) |-> [size |-> Len(purger.listings[n])]])
         /\ Len(purger.listings) = purger.i

C24_Witness ==
  /\ purger.pc = "done"
  /\ purger.err = ""
  /\ purger.config.dryRun
  /\ Len(purger.repos) = 2
  /\ Len(purger.listings) = 2
  /\ Len(purger.listings[1]) = 2
  /\ Len(purger.stdout) = 3
  /\ purger.stdout[3].verb = "found"
  /\ purger.stdout[3].n >= 3

Mutating(c) ==
  c.api \in {"Activity.SetRepositorySubscription", "Activity.DeleteRepositorySubscription"}

\* C30: SetRepositorySubscription is called only with -watch and for a
\* repository whose subscription, just looked up, is not subscribed;
\* DeleteRepositorySubscription only with -unwatch and for one that is
\* subscribed; a repository gets one mutating call at most, and none with
\* neither flag; a call that fails is the last call of the run, so that only
\* the repositories up to it are touched.
C30_MutatesOnlyAsAsked ==
  SubscriberRuns =>
    /\ \A k \in 1..Len(subscriber.calls) :
         LET c == subscriber.calls[k] IN
           /\ Mutating(c) =>
                /\ k > 1
                /\ subscriber.calls[k - 1].api = "Activity.GetRepositorySubscription"
                /\ subscriber.calls[k - 1].repo = c.repo
                /\ ~subscriber.calls[k - 1].failed
                /\ IF c.api = "Activity.SetRepositorySubscription"
                     THEN subscriber.config.watch /\ ~GetSubscribed(subscriber.calls[k - 1].answer)
                     ELSE subscriber.config.unwatch /\ GetSubscribed(subscriber.calls[k - 1].answer)
                /\ subscriber.config.watch \/ subscriber.config.unwatch
           /\ c.failed =>
                k = Len(subscriber.calls) /\ subscriber.pc = "done" /\ subscriber.err # ""
           /\ \E n \in 1..subscriber.i : subscriber.repos[n].name = c.repo
    /\ \A n \in 1..Len(subscriber.repos) :
         Cardinality({k \in 1..Len(subscriber.calls) :
                        Mutating(subscriber.calls[k]) /\
                        subscriber.calls[k].repo = subscriber.repos[n].name}) <= 1

C30_Witness ==
  /\ subscriber.pc = "done"
  /\ subscriber.err = "subscription change failed"
  /\ subscriber.config.watch /\ subscriber.config.unwatch
  /\ Len(subscriber.repos) = 2
  /\ Len(subscriber.calls) = 4
  /\ subscriber.calls[2].api = "Activity.SetRepositorySubscription"
  /\ subscriber.calls[4].api = "Activity.DeleteRepositorySubscription"
  /\ subscriber.calls[4].failed

\* ------------------------------------------------------ the implied file type
\* The paths of the directories of the trees.
TreePaths == {e.path : e \in {u \in universe : u.type = "tree"}}

ImpliesFile(flags) ==
  ~flags.grep.isNil \/ ~flags.noGrep.isNil \/ (flags.size.isSet /\ flags.size.valid)

\* C25: with a grep pattern, a no-grep pattern or a size predicate the
\* effective type is the file type whatever -type was given: no directory is
\* emitted as a result and no contents are downloaded for one.
C25_GrepNoGrepAndSizeImplyTheFileType ==
  (RunCalled /\ ret.err = "" /\ ImpliesFile(call.flags)) =>
    /\ ret.config.ftype = typeFile
    /\ call.token # "" => config.ftype = typeFile
    /\ walkPc # "run" =>
         /\ \A k \in 1..Len(stdout) : stdout[k].path \notin TreePaths
         /\ \A k \in 1..Len(apiLog) :
              apiLog[k].api = "Repositories.DownloadContents" => apiLog[k].path \notin TreePaths

C25_Witness ==
  /\ RunCalled
  /\ call.flags.ftype = typeDir
  /\ ~call.flags.grep.isNil
  /\ call.flags.noGrep.isNil
  /\ walkPc = "done"
  /\ walkErr = ""
  /\ Len(repos) = 1
  /\ step.stage = "end"
  /\ Len(tree) = 2
  /\ tree[1].type = "tree"
  /\ Len(stdout) = 1
  /\ stdout[1].kind = "grep"

\* ------------------------------------------------- the order of the checks
EvalEntryCalled == call.fn = "EvalEntry"

\* The checks of an entry in the order the claim gives them.
StageOrder ==
  <<"global", "repo", "depth", "type", "size", "noPath", "path", "noName", "name">>

\* The entry fails the check.
Fails(stage, cfg, e, m, rm) ==
  CASE stage = "global" -> cfg.maxResults > 0 /\ m >= cfg.maxResults
    [] stage = "repo" -> cfg.maxRepoResults > 0 /\ rm >= cfg.maxRepoResults
    [] stage = "depth" ->
         \/ cfg.minDepth > 0 /\ Slashes(e.path) + 1 < cfg.minDepth
         \/ cfg.maxDepth > 0 /\ Slashes(e.path) + 1 > cfg.maxDepth
    [] stage = "type" ->
         \/ cfg.ftype = typeFile /\ e.type # "blob"
         \/ cfg.ftype = typeDir /\ e.type # "tree"
    [] stage = "size" -> ~cfg.size.isNil /\ ~sizeMatch(cfg.size, e.size)
    [] stage = "noPath" -> \E k \in 1..Len(cfg.noPathRegexp) : MatchString(cfg.noPathRegexp[k], e.path)
    [] stage = "path" ->
         /\ cfg.pathRegexp # <<>>
         /\ \A k \in 1..Len(cfg.pathRegexp) : ~MatchString(cfg.pathRegexp[k], e.path)
    [] stage = "noName" ->
         \E k \in 1..Len(cfg.noNameRegexp) : MatchString(cfg.noNameRegexp[k], LastComponent(e.path))
    [] stage = "name" ->
         /\ cfg.nameRegexp # <<>>
         /\ \A k \in 1..Len(cfg.nameRegexp) : ~MatchString(cfg.nameRegexp[k], LastComponent(e.path))

\* The first check of the order the entry fails, "" when it passes them all.
FirstFailed(cfg, e, m, rm) ==
  IF \A k \in 1..Len(StageOrder) : ~Fails(StageOrder[k], cfg, e, m, rm) THEN ""
  ELSE StageOrder[CHOOSE k \in 1..Len(StageOrder) :
                    /\ Fails(StageOrder[k], cfg, e, m, rm)
                    /\ \A j \in 1..(k - 1) : ~Fails(StageOrder[j], cfg, e, m, rm)]

\* C26: the checks of an entry come in the order global budget, repository
\* budget, depth, type, size, path reject, path match, name reject, name
\* match, the first one failed deciding; an entry that fails one causes no
\* download and no commit lookup, so that a call is issued only for an entry
\* that passed them all; and the no-grep scan comes before the grep scan: when
\* its download fails or its scan rejects the file, nothing else is
\* downloaded or printed.
C26_ChecksPrecedeTheDownloads ==
  EvalEntryCalled =>
    LET first == FirstFailed(call.config, call.entry, call.matched, call.repoMatched)
    IN  /\ first # "" =>
              /\ ret.stage = first
              /\ ret.calls = <<>>
              /\ ret.out = <<>>
        /\ ret.calls # <<>> => first = ""
        /\ (/\ first = ""
            /\ ~call.config.noGrepRegexp.isNil
            /\ ~call.config.grepRegexp.isNil
            /\ call.entry.type = "blob") =>
              /\ ret.calls # <<>>
              /\ ret.calls[1].api = "Repositories.DownloadContents"
              /\ call.answers.d1 = "error" =>
                   ret.stage = "noGrep" /\ Len(ret.calls) = 1 /\ ret.out = <<>> /\ ret.err # ""
              /\ ret.stage = "noGrep" => Len(ret.calls) = 1 /\ ret.out = <<>>
              /\ ret.stage = "grep" => Len(ret.calls) = 2

C26_Witness ==
  /\ EvalEntryCalled
  /\ call.config.minDepth = 2
  /\ ~call.config.size.isNil
  /\ call.config.noPathRegexp # <<>>
  /\ call.config.nameRegexp # <<>>
  /\ ~call.config.noGrepRegexp.isNil
  /\ ~call.config.grepRegexp.isNil
  /\ call.config.maxResults = 1
  /\ call.matched = 0
  /\ call.answers.d2 = "error"
  /\ ret.stage = "grep"
  /\ Len(ret.calls) = 2
  /\ ret.err # ""

C28_DetailLineOrError ==
  (config.listDetails /\ ~config.noMatches /\ step.stage = "detail") =>
    \/ /\ step.out = 1
       /\ stdout[Len(stdout)].kind = "detail"
       /\ stdout[Len(stdout)].path = tree[step.entry].path
       /\ walkPc \in {"entries", "repos"}
    \/ /\ step.out = 0
       /\ walkPc = "done"
       /\ walkErr # ""
====
